---- MODULE Spec2Model ----
(***************************************************************************)
(* A model of the climate-data downloader (src/app.py): the unit           *)
(* converter, the date-range clamper, the point time-series fetcher and    *)
(* the fetch sweep / ensemble / session cache of main().                   *)
(*                                                                         *)
(* Representation:                                                         *)
(*   - a date string "YYYY-MM-DD" is the tuple <<Y, M, D>>;                *)
(*   - a pandas Timestamp (midnight) is its day number since 1970-01-01;   *)
(*   - a float is an exact rational <<n, d>> in lowest terms, d > 0        *)
(*     (rounding of binary floating point is outside the model);           *)
(*   - a JSON cell of a remote response is a record [k, n, d] with         *)
(*     k = "null" (None), "num" (a number n/d) or "text" (a non-numeric    *)
(*     string).                                                            *)
(***************************************************************************)
EXTENDS Integers, Sequences, FiniteSets, TLC

VARIABLES
    clampIn, clampOut,      \* clamp_dates_for_scenario: arguments, result
    convIn, convOut,        \* convert_units: arguments, result
    fetchIn, fetchOut,      \* fetch_point_timeseries: arguments and remote answers, result
    ui,                     \* the sidebar's widget values and whether Fetch was pressed
    pc,                     \* where the script run is: "waiting", "start", "sweep"
    ss,                     \* st.session_state
    sweep,                  \* main()'s locals during the fetch sweep
    fetchLog,               \* the fetch_point_timeseries calls of this script run
    outcome,                \* how the last script run ended
    ss0,                    \* st.session_state when this script run started
    ee,                     \* the Earth Engine environment and the Reconnect button
    shown,                  \* what the download section of this script run renders
    ensureIn, ensureOut,    \* _ensure_ee_initialized: session, project, environment; result
    filtIn, filtOut         \* the sidebar's scenario filter: selected decades; scenarios offered

clampVars == <<clampIn, clampOut>>
convVars == <<convIn, convOut>>
fetchVars == <<fetchIn, fetchOut>>
ensureVars == <<ensureIn, ensureOut>>
filtVars == <<filtIn, filtOut>>
mainVars == <<ui, pc, ss, sweep, fetchLog, outcome, ss0, ee, shown>>
vars == <<clampIn, clampOut, convIn, convOut, fetchIn, fetchOut,
          ui, pc, ss, sweep, fetchLog, outcome, ss0, ee, shown,
          ensureIn, ensureOut, filtIn, filtOut>>

(***************************************************************************)
(* Generic helpers                                                         *)
(***************************************************************************)
RECURSIVE Gcd(_, _)
Gcd(a, b) ==
    IF b = 0 THEN a ELSE Gcd(b, a % b)

Abs(x) ==
    IF x < 0 THEN -x ELSE x

\* The rational n/d (d # 0) in lowest terms with a positive denominator.
Rat(n, d) ==
    LET g == Gcd(Abs(n), Abs(d))
        s == IF d < 0 THEN -1 ELSE 1
    IN  <<s * (n \div g), s * (d \div g)>>

RatAdd(x, y) ==
    Rat(x[1] * y[2] + y[1] * x[2], x[2] * y[2])

RatSub(x, y) ==
    Rat(x[1] * y[2] - y[1] * x[2], x[2] * y[2])

\* x * k for an integer k, cancelling before multiplying.
RatScale(x, k) ==
    LET g == Gcd(Abs(k), x[2])
    IN  Rat(x[1] * (k \div g), x[2] \div g)

\* x / k for an integer k > 0, cancelling before multiplying.
RatDivInt(x, k) ==
    LET g == Gcd(Abs(x[1]), k)
    IN  Rat(x[1] \div g, x[2] * (k \div g))

RECURSIVE SeqSum(_)
SeqSum(s) ==
    IF s = <<>> THEN <<0, 1>> ELSE RatAdd(Head(s), SeqSum(Tail(s)))

\* The subsequence of s whose elements satisfy Test, in s's order.
RECURSIVE SelectSeqBy(_, _)
SelectSeqBy(s, keep) ==
    IF s = <<>> THEN <<>>
    ELSE IF Head(s) \in keep THEN <<Head(s)>> \o SelectSeqBy(Tail(s), keep)
    ELSE SelectSeqBy(Tail(s), keep)

Range(s) ==
    {s[i] : i \in 1..Len(s)}

(***************************************************************************)
(* Calendar: pd.to_datetime / pd.Timestamp / strftime("%Y-%m-%d")          *)
(***************************************************************************)
\* pd.to_datetime("YYYY-MM-DD"), pd.Timestamp("YYYY-MM-DD"): the day number
\* of the proleptic Gregorian date, 1970-01-01 = 0.
to_datetime(date) ==
    LET y == IF date[2] <= 2 THEN date[1] - 1 ELSE date[1]
        era == y \div 400
        yoe == y - era * 400
        mp == IF date[2] > 2 THEN date[2] - 3 ELSE date[2] + 9
        doy == (153 * mp + 2) \div 5 + date[3] - 1
        doe == yoe * 365 + yoe \div 4 - yoe \div 100 + doy
    IN  era * 146097 + doe - 719468

\* Timestamp.strftime("%Y-%m-%d") / Timestamp.date().isoformat(): the date
\* of a day number.
strftime(days) ==
    LET z == days + 719468
        era == z \div 146097
        doe == z - era * 146097
        yoe == (doe - doe \div 1460 + doe \div 36524 - doe \div 146096) \div 365
        doy == doe - (365 * yoe + yoe \div 4 - yoe \div 100)
        mp == (5 * doy + 2) \div 153
        d == doy - (153 * mp + 2) \div 5 + 1
        m == IF mp < 10 THEN mp + 3 ELSE mp - 9
        y == yoe + era * 400
    IN  <<IF m <= 2 THEN y + 1 ELSE y, m, d>>

\* Order of ISO date strings (character by character = field by field).
DateLeq(a, b) ==
    \/ a[1] < b[1]
    \/ a[1] = b[1] /\ a[2] < b[2]
    \/ a[1] = b[1] /\ a[2] = b[2] /\ a[3] <= b[3]

DateMax(a, b) ==
    IF DateLeq(a, b) THEN b ELSE a

DateMin(a, b) ==
    IF DateLeq(a, b) THEN a ELSE b

(***************************************************************************)
(* Program constants                                                       *)
(***************************************************************************)
AVAILABLE_BANDS ==
    <<"tas", "tasmax", "tasmin", "pr", "hurs", "huss", "rsds", "rlds", "sfcWind">>

KNOWN_SCENARIOS ==
    <<"historical", "ssp245", "ssp585">>

DecadeFirstYear == 1950
DecadeStopYear == 2100
DecadeStep == 10

\* DECADES: the (start, end) pair of the decade that starts in year y.
DecadeOf_overlapping(y) ==
    <<<<y, 1, 1>>, <<y + 10, 12, 31>>>>

DecadeOf(y) ==
    <<<<y, 1, 1>>, <<y + 9, 12, 31>>>>

DECADES ==
    {DecadeOf(y) : y \in {yy \in DecadeFirstYear..(DecadeStopYear - 1) :
                            (yy - DecadeFirstYear) % DecadeStep = 0}}

\* Python's None where a date string is expected, and the pair (None, None).
None == <<0, 0, 0>>
NoneNone == <<None, None>>

(***************************************************************************)
(* convert_units                                                           *)
(***************************************************************************)
KelvinOffset == Rat(27315, 100)
SecondsPerDay == 86400

convert_units_tas_only(band, value) ==
    IF band = "tas" THEN RatSub(value, KelvinOffset)
    ELSE IF band = "pr" THEN RatScale(value, SecondsPerDay)
    ELSE value

convert_units(band, value) ==
    IF band \in {"tas", "tasmax", "tasmin"} THEN RatSub(value, KelvinOffset)
    ELSE IF band = "pr" THEN RatScale(value, SecondsPerDay)
    ELSE value

(***************************************************************************)
(* clamp_dates_for_scenario                                                *)
(***************************************************************************)
HistMin == <<1950, 1, 1>>
HistMax == <<2014, 12, 31>>
SspMin == <<2015, 1, 1>>
SspMax == <<2100, 12, 31>>

IntMax(a, b) ==
    IF a >= b THEN a ELSE b

IntMin(a, b) ==
    IF a <= b THEN a ELSE b

clamp_no_empty_check(start_date, end_date, scenario) ==
    LET s_min == to_datetime(IF scenario = "historical" THEN HistMin ELSE SspMin)
        s_max == to_datetime(IF scenario = "historical" THEN HistMax ELSE SspMax)
        sdt == IntMax(to_datetime(start_date), s_min)
        edt == IntMin(to_datetime(end_date), s_max)
    IN  <<strftime(sdt), strftime(edt)>>

clamp_start_not_clamped(start_date, end_date, scenario) ==
    LET s_max == to_datetime(IF scenario = "historical" THEN HistMax ELSE SspMax)
        sdt == to_datetime(start_date)
        edt == IntMin(to_datetime(end_date), s_max)
    IN  IF sdt > edt THEN NoneNone
        ELSE <<strftime(sdt), strftime(edt)>>

clamp_dates_for_scenario(start_date, end_date, scenario) ==
    LET sdt0 == to_datetime(start_date)
        edt0 == to_datetime(end_date)
        s_min == to_datetime(IF scenario = "historical" THEN HistMin ELSE SspMin)
        s_max == to_datetime(IF scenario = "historical" THEN HistMax ELSE SspMax)
        sdt == IntMax(sdt0, s_min)
        edt == IntMin(edt0, s_max)
    IN  IF sdt > edt THEN NoneNone
        ELSE <<strftime(sdt), strftime(edt)>>

(***************************************************************************)
(* fetch_point_timeseries                                                  *)
(*                                                                         *)
(* The remote service's answers to the three getInfo() calls are the       *)
(* record `remote`:                                                        *)
(*   size      [ok, n]      coll.size().getInfo()                          *)
(*   bandNames [ok, names]  coll.first().bandNames().getInfo()             *)
(*   region    [ok, arr]    coll.getRegion(point, scale).getInfo()         *)
(* ok = FALSE is a call that raises.  arr is the list of rows, arr[1] the  *)
(* header.  The time cell holds the millisecond timestamp divided by       *)
(* 3 600 000 (hours since 1970-01-01 00:00 UTC).                           *)
(***************************************************************************)
NullCell == [k |-> "null", n |-> 0, d |-> 1]
TextCell == [k |-> "text", n |-> 0, d |-> 1]
NumCell(n, d) == [k |-> "num", n |-> n, d |-> d]

HoursPerDay == 24

\* The columns getRegion puts before 'time', and their cells.
MetaColumns == <<"id", "longitude", "latitude">>
MetaCells == <<TextCell, NumCell(0, 1), NumCell(0, 1)>>

EmptyFrame == <<>>

\* list.index(x): the first position of x.
IndexOf(s, x) ==
    CHOOSE i \in 1..Len(s) : s[i] = x /\ \A j \in 1..(i - 1) : s[j] # x

BandsIn_unfiltered(bands, available) ==
    bands

\* [b for b in bands if b in available_bands]
BandsIn(bands, available) ==
    SelectSeqBy(bands, Range(available))

\* pd.to_datetime(r[time_idx], unit='ms', utc=True).tz_convert(None).date().isoformat()
\* [ok |-> FALSE] when the try block raises (short row, non-numeric cell).
RowDate(r, time_idx) ==
    IF time_idx > Len(r) THEN [ok |-> FALSE, date |-> <<0, 0, 0>>]
    ELSE IF r[time_idx].k # "num" THEN [ok |-> FALSE, date |-> <<0, 0, 0>>]
    ELSE [ok |-> TRUE, date |-> strftime(r[time_idx].n \div HoursPerDay)]

\* The inner loop `for band in bands_to_fetch` for one row with date date_str,
\* started with the records acc: [raised, recs].
RECURSIVE BandLoop(_, _, _, _, _, _, _)
BandLoop(header, r, date_str, todo, model, scenario, acc) ==
    IF todo = <<>> THEN [raised |-> FALSE, recs |-> acc]
    ELSE LET band == Head(todo)
         IN  IF band \notin Range(header)
             THEN BandLoop(header, r, date_str, Tail(todo), model, scenario, acc)
             ELSE LET idx == IndexOf(header, band)
                  IN  IF idx > Len(r)
                      THEN [raised |-> TRUE, recs |-> acc]      \* r[idx]: IndexError
                      ELSE IF r[idx].k = "null"
                      THEN BandLoop(header, r, date_str, Tail(todo), model, scenario, acc)
                      ELSE IF r[idx].k # "num"
                      THEN [raised |-> TRUE, recs |-> acc]      \* float(val): ValueError
                      ELSE BandLoop(header, r, date_str, Tail(todo), model, scenario,
                               Append(acc, [date |-> date_str,
                                            band |-> band,
                                            value |-> convert_units(band, Rat(r[idx].n, r[idx].d)),
                                            model |-> model,
                                            scenario |-> scenario]))

\* The outer loop `for r in rows`: [raised, recs].
RECURSIVE RowLoop(_, _, _, _, _, _, _)
RowLoop(header, rows, time_idx, bands_to_fetch, model, scenario, acc) ==
    IF rows = <<>> THEN [raised |-> FALSE, recs |-> acc]
    ELSE LET t == RowDate(Head(rows), time_idx)
         IN  IF ~t.ok
             THEN RowLoop(header, Tail(rows), time_idx, bands_to_fetch, model, scenario, acc)
             ELSE LET one == BandLoop(header, Head(rows), t.date, bands_to_fetch,
                                      model, scenario, acc)
                  IN  IF one.raised THEN one
                      ELSE RowLoop(header, Tail(rows), time_idx, bands_to_fetch,
                                   model, scenario, one.recs)

Query(op, start, end, model, scenario, bands) ==
    [op |-> op, start |-> start, end |-> end, model |-> model,
     scenario |-> scenario, bands |-> bands]

FetchResult(raised, df, calls, msg) ==
    [raised |-> raised, df |-> df, calls |-> calls, msg |-> msg]

\* The part of fetch_point_timeseries after getRegion has answered.
BuildRecords(arr, bands_to_fetch, model, scenario, calls) ==
    IF Len(arr) < 2 THEN FetchResult(FALSE, EmptyFrame, calls, "warning")
    ELSE IF "time" \notin Range(arr[1]) THEN FetchResult(FALSE, EmptyFrame, calls, "warning")
    ELSE LET header == arr[1]
             rows == Tail(arr)
             out == RowLoop(header, rows, IndexOf(header, "time"), bands_to_fetch,
                            model, scenario, <<>>)
         IN  IF out.raised THEN FetchResult(TRUE, EmptyFrame, calls, "none")
             ELSE FetchResult(FALSE, out.recs, calls,
                              IF out.recs # <<>> THEN "success" ELSE "warning")

fetch_without_empty_return(start, end, bands, model, scenario, remote) ==
    LET qSize == Query("size", start, end, model, scenario, <<>>)
        qBands == Query("bandNames", start, end, model, scenario, <<>>)
    IN  IF ~remote.size.ok
        THEN FetchResult(FALSE, EmptyFrame, <<qSize>>, "warning")
        ELSE LET present == BandsIn(bands, remote.bandNames.names)
                 bands_to_fetch == IF remote.bandNames.ok THEN present ELSE bands
                 qRegion == Query("getRegion", start, end, model, scenario, bands_to_fetch)
             IN  IF remote.bandNames.ok /\ present = <<>>
                 THEN FetchResult(FALSE, EmptyFrame, <<qSize, qBands>>, "warning")
                 ELSE IF ~remote.region.ok
                 THEN FetchResult(FALSE, EmptyFrame, <<qSize, qBands, qRegion>>, "warning")
                 ELSE BuildRecords(remote.region.arr, bands_to_fetch, model, scenario,
                                   <<qSize, qBands, qRegion>>)

fetch_point_timeseries(start, end, bands, model, scenario, remote) ==
    LET qSize == Query("size", start, end, model, scenario, <<>>)
        qBands == Query("bandNames", start, end, model, scenario, <<>>)
    IN  IF ~remote.size.ok \/ remote.size.n = 0
        THEN FetchResult(FALSE, EmptyFrame, <<qSize>>, "warning")
        ELSE LET present == BandsIn(bands, remote.bandNames.names)
                 bands_to_fetch == IF remote.bandNames.ok THEN present ELSE bands
                 qRegion == Query("getRegion", start, end, model, scenario, bands_to_fetch)
             IN  IF remote.bandNames.ok /\ present = <<>>
                 THEN FetchResult(FALSE, EmptyFrame, <<qSize, qBands>>, "warning")
                 ELSE IF ~remote.region.ok
                 THEN FetchResult(FALSE, EmptyFrame, <<qSize, qBands, qRegion>>, "warning")
                 ELSE BuildRecords(remote.region.arr, bands_to_fetch, model, scenario,
                                   <<qSize, qBands, qRegion>>)

(***************************************************************************)
(* main(): the tables built after the sweep                                *)
(*                                                                         *)
(* A frame is a sequence of records [date, band, value, model, scenario].  *)
(***************************************************************************)
ENSEMBLE_MEAN == "ENSEMBLE-MEAN"

\* Column order of a frame built from the fetcher's records, and of a frame
\* built by groupby(...).mean().reset_index() with three columns added.
FetchColumns == <<"date", "band", "value", "model", "scenario">>
EnsembleColumns == <<"date", "value", "band", "model", "scenario">>

\* Python's order of the strings that occur as band, model or scenario (code
\* point order): each group below is listed in increasing order.
StrRank(str) ==
    CASE str = "hurs" -> 1
      [] str = "pr" -> 2
      [] str = "tas" -> 3
      [] str = "ACCESS-ESM1-5" -> 1
      [] str = "ENSEMBLE-MEAN" -> 2
      [] str = "MPI-ESM1-2-LR" -> 3
      [] str = "historical" -> 1
      [] str = "ssp245" -> 2
      [] str = "ssp585" -> 3

\* a sorts strictly before b under sort_values(["band", "model", "scenario", "date"]).
RowBefore(a, b) ==
    \/ StrRank(a.band) < StrRank(b.band)
    \/ /\ a.band = b.band
       /\ \/ StrRank(a.model) < StrRank(b.model)
          \/ /\ a.model = b.model
             /\ \/ StrRank(a.scenario) < StrRank(b.scenario)
                \/ /\ a.scenario = b.scenario
                   /\ a.date # b.date
                   /\ DateLeq(a.date, b.date)

\* x put into the sorted frame df behind every row that does not sort after it.
RECURSIVE InsertRow(_, _)
InsertRow(x, df) ==
    IF df = <<>> THEN <<x>>
    ELSE IF RowBefore(x, Head(df)) THEN <<x>> \o df
    ELSE <<Head(df)>> \o InsertRow(x, Tail(df))

\* df.sort_values(["band", "model", "scenario", "date"]): rows with equal keys
\* keep their order.
RECURSIVE sort_values(_)
sort_values(df) ==
    IF df = <<>> THEN <<>>
    ELSE InsertRow(df[Len(df)], sort_values(SubSeq(df, 1, Len(df) - 1)))

\* pd.concat(frames, ignore_index=True)
RECURSIVE concat(_)
concat(frames) ==
    IF frames = <<>> THEN <<>> ELSE Head(frames) \o concat(Tail(frames))

\* all_data[(all_data["scenario"] == scenario) & (all_data["band"] == band)]
RECURSIVE Subset(_, _, _)
Subset(df, scenario, band) ==
    IF df = <<>> THEN <<>>
    ELSE IF Head(df).scenario = scenario /\ Head(df).band = band
    THEN <<Head(df)>> \o Subset(Tail(df), scenario, band)
    ELSE Subset(Tail(df), scenario, band)

\* The values of the rows of df dated date, in order.
RECURSIVE ValuesOn(_, _)
ValuesOn(df, date) ==
    IF df = <<>> THEN <<>>
    ELSE IF Head(df).date = date THEN <<Head(df).value>> \o ValuesOn(Tail(df), date)
    ELSE ValuesOn(Tail(df), date)

\* The distinct dates of a set, as a sequence in increasing order.
RECURSIVE SortedDates(_)
SortedDates(dates) ==
    IF dates = {} THEN <<>>
    ELSE LET first == CHOOSE x \in dates : \A y \in dates : DateLeq(x, y)
         IN  <<first>> \o SortedDates(dates \ {first})

Mean_of_two(values) ==
    LET total == SeqSum(values)
    IN  Rat(total[1], total[2] * 2)

Mean(values) ==
    LET total == SeqSum(values)
    IN  Rat(total[1], total[2] * Len(values))

MeanOfFirst(values) ==
    values[1]

\* subset.groupby("date")["value"].mean().reset_index() with the band, model
\* and scenario columns added.
GroupMean_first_only(subset, scenario, band) ==
    LET dates == SortedDates({subset[i].date : i \in 1..Len(subset)})
    IN  [i \in 1..Len(dates) |->
            [date |-> dates[i], band |-> band,
             value |-> MeanOfFirst(ValuesOn(subset, dates[i])),
             model |-> ENSEMBLE_MEAN, scenario |-> scenario]]

GroupMean(subset, scenario, band) ==
    LET dates == SortedDates({subset[i].date : i \in 1..Len(subset)})
    IN  [i \in 1..Len(dates) |->
            [date |-> dates[i], band |-> band,
             value |-> Mean(ValuesOn(subset, dates[i])),
             model |-> ENSEMBLE_MEAN, scenario |-> scenario]]

\* The loops `for scenario in sel_scen: for band in sel_bands:` that collect
\* ensemble_frames, from position (si, bi) on.
RECURSIVE EnsembleFrames(_, _, _, _, _)
EnsembleFrames(all_data, sel_scen, sel_bands, si, bi) ==
    IF si > Len(sel_scen) THEN <<>>
    ELSE IF bi > Len(sel_bands) THEN EnsembleFrames(all_data, sel_scen, sel_bands, si + 1, 1)
    ELSE LET subset == Subset(all_data, sel_scen[si], sel_bands[bi])
             rest == EnsembleFrames(all_data, sel_scen, sel_bands, si, bi + 1)
         IN  IF subset # <<>>
             THEN <<GroupMean(subset, sel_scen[si], sel_bands[bi])>> \o rest
             ELSE rest

BuildOutput_unsorted(all_frames, sel_scen, sel_bands, sel_models, include_individual, include_ensemble) ==
    LET all_data == sort_values(concat(all_frames))
        individual == IF include_individual THEN <<all_data>> ELSE <<>>
        ensemble_frames ==
            IF include_ensemble /\ Len(sel_models) > 1
            THEN EnsembleFrames(all_data, sel_scen, sel_bands, 1, 1)
            ELSE <<>>
        output_frames ==
            IF ensemble_frames # <<>>
            THEN individual \o <<concat(ensemble_frames)>>
            ELSE individual
    IN  [all_data |-> all_data,
         output_frames |-> output_frames,
         columns |-> IF include_individual THEN FetchColumns ELSE EnsembleColumns,
         out |-> concat(output_frames)]

BuildOutput_always_individual(all_frames, sel_scen, sel_bands, sel_models, include_individual, include_ensemble) ==
    LET all_data == sort_values(concat(all_frames))
        individual == <<all_data>>
        ensemble_frames ==
            IF include_ensemble /\ Len(sel_models) > 1
            THEN EnsembleFrames(all_data, sel_scen, sel_bands, 1, 1)
            ELSE <<>>
        output_frames ==
            IF ensemble_frames # <<>>
            THEN individual \o <<concat(ensemble_frames)>>
            ELSE individual
    IN  [all_data |-> all_data,
         output_frames |-> output_frames,
         columns |-> FetchColumns,
         out |-> sort_values(concat(output_frames))]

BuildOutput_three_model_ensemble(all_frames, sel_scen, sel_bands, sel_models, include_individual, include_ensemble) ==
    LET all_data == sort_values(concat(all_frames))
        individual == IF include_individual THEN <<all_data>> ELSE <<>>
        ensemble_frames ==
            IF include_ensemble /\ Len(sel_models) > 2
            THEN EnsembleFrames(all_data, sel_scen, sel_bands, 1, 1)
            ELSE <<>>
        output_frames ==
            IF ensemble_frames # <<>>
            THEN individual \o <<concat(ensemble_frames)>>
            ELSE individual
    IN  [all_data |-> all_data,
         output_frames |-> output_frames,
         columns |-> IF include_individual THEN FetchColumns ELSE EnsembleColumns,
         out |-> sort_values(concat(output_frames))]

\* Lines 876-916: the table `out` built from the frames of a sweep.
BuildOutput(all_frames, sel_scen, sel_bands, sel_models, include_individual, include_ensemble) ==
    LET all_data == sort_values(concat(all_frames))
        individual == IF include_individual THEN <<all_data>> ELSE <<>>
        ensemble_frames ==
            IF include_ensemble /\ Len(sel_models) > 1
            THEN EnsembleFrames(all_data, sel_scen, sel_bands, 1, 1)
            ELSE <<>>
        output_frames ==
            IF ensemble_frames # <<>>
            THEN individual \o <<concat(ensemble_frames)>>
            ELSE individual
    IN  [all_data |-> all_data,
         output_frames |-> output_frames,
         columns |-> IF include_individual THEN FetchColumns ELSE EnsembleColumns,
         out |-> sort_values(concat(output_frames))]

(***************************************************************************)
(* main(): the download artifacts (lines 976-1110)                         *)
(***************************************************************************)
\* download_data before the first packaging: None.
NoDownloads == <<>>

Table(columns, rows) ==
    [columns |-> columns, rows |-> rows]

NoTable == Table(<<>>, <<>>)

\* hash(out.to_csv()): the digest is taken to be collision-free, so it is
\* represented by the content it digests.
Hash(table) ==
    table

\* out[out["model"] == model]
RECURSIVE RowsOfModel(_, _)
RowsOfModel(rows, model) ==
    IF rows = <<>> THEN <<>>
    ELSE IF Head(rows).model = model THEN <<Head(rows)>> \o RowsOfModel(Tail(rows), model)
    ELSE RowsOfModel(Tail(rows), model)

\* sorted(S) for a set of model names.
RECURSIVE SortedNames(_)
SortedNames(names) ==
    IF names = {} THEN <<>>
    ELSE LET first == CHOOSE x \in names : \A y \in names : StrRank(x) <= StrRank(y)
         IN  <<first>> \o SortedNames(names \ {first})

\* The text of an artifact is a sequence of lines; a line is its marker ("#"
\* for a comment line, "" otherwise) and its comma-separated cells.  A cell
\* is the text written for a string (s) or for a date or a number (n).
StrCell(str) ==
    [s |-> str, n |-> <<0, 0, 0>>]

\* A date string is written as it is.
DateCell(date) ==
    [s |-> "", n |-> date]

\* A float is written as the shortest decimal that reads back as the same
\* float.
FloatCell(value) ==
    [s |-> "", n |-> <<value[1], value[2], 0>>]

\* f"{lat}" and f"{lon}" of the header line.
CoordCell(latlon) ==
    [s |-> "", n |-> <<latlon[1], latlon[2], 0>>]

CommentLine(cells) ==
    [mark |-> "#", cells |-> cells]

DataLine(cells) ==
    [mark |-> "", cells |-> cells]

\* The text to_csv writes for the field of a record under a column name.
FormatField(row, column) ==
    CASE column = "date" -> DateCell(row.date)
      [] column = "band" -> StrCell(row.band)
      [] column = "value" -> FloatCell(row.value)
      [] column = "model" -> StrCell(row.model)
      [] column = "scenario" -> StrCell(row.scenario)

to_csv_fetch_order(columns, rows) ==
    <<DataLine([c \in 1..Len(columns) |-> StrCell(columns[c])])>>
        \o [i \in 1..Len(rows) |->
               DataLine([c \in 1..Len(FetchColumns) |-> FormatField(rows[i], FetchColumns[c])])]

\* frame.to_csv(index=False): the header row of the frame's columns, then
\* one line per row with the fields in the order of the columns.
to_csv(columns, rows) ==
    <<DataLine([c \in 1..Len(columns) |-> StrCell(columns[c])])>>
        \o [i \in 1..Len(rows) |->
               DataLine([c \in 1..Len(columns) |-> FormatField(rows[i], columns[c])])]

\* f"{lat:.2f}_{lon:.2f}": coordinates, kept in units of 0.0001 degree,
\* rounded to units of 0.01 degree (no coordinate used lies half-way).
Round2(x) ==
    IF x >= 0 THEN (x + 50) \div 100 ELSE -((50 - x) \div 100)

FileName(name, latlon) ==
    [name |-> name, lat |-> Round2(latlon[1]), lon |-> Round2(latlon[2])]

\* The MODELS / MODEL section of create_metadata.
ModelsSection(models_included) ==
    IF models_included = <<>> THEN <<>>
    ELSE IF ENSEMBLE_MEAN \in Range(models_included) /\ Len(models_included) > 1
    THEN LET actual_models ==
                 SelectSeqBy(models_included, Range(models_included) \ {ENSEMBLE_MEAN})
         IN  <<CommentLine(<<StrCell("MODELS")>>)>>
                 \o [i \in 1..Len(actual_models) |-> CommentLine(<<StrCell(actual_models[i])>>)]
                 \o <<CommentLine(<<StrCell("ENSEMBLE-MEAN is the arithmetic average")>>)>>
    ELSE IF Len(models_included) = 1 /\ models_included[1] # ENSEMBLE_MEAN
    THEN <<CommentLine(<<StrCell("MODEL")>>), CommentLine(<<StrCell(models_included[1])>>)>>
    ELSE IF models_included = <<ENSEMBLE_MEAN>>
    THEN <<CommentLine(<<StrCell("MODEL")>>),
           CommentLine(<<StrCell("ENSEMBLE-MEAN (multi-model average)")>>)>>
    ELSE <<>>

\* create_metadata(models_included): the lines of the header that vary, and
\* the first and last of those that do not.
create_metadata(models_included, latlon, location_name) ==
    <<CommentLine(<<StrCell("NASA/GDDP-CMIP6 Climate Data Download")>>),
      CommentLine(<<StrCell("Location"), CoordCell(latlon)>>),
      CommentLine(<<StrCell("Place"), StrCell(location_name)>>)>>
        \o ModelsSection(models_included)
        \o <<CommentLine(<<StrCell("DATA SOURCE")>>), CommentLine(<<>>)>>

DownloadFiles_without_combined(table, latlon, location_name) ==
    LET unique_models == SortedNames({table.rows[i].model : i \in 1..Len(table.rows)})
    IN  [key \in Range(unique_models) |->
            [data |-> create_metadata(<<key>>, latlon, location_name)
                         \o to_csv(table.columns, RowsOfModel(table.rows, key)),
             filename |-> FileName(key, latlon)]]

DownloadFiles_unfiltered(table, latlon, location_name) ==
    LET unique_models == SortedNames({table.rows[i].model : i \in 1..Len(table.rows)})
    IN  [key \in Range(unique_models) \cup {"_combined"} |->
            IF key = "_combined"
            THEN [data |-> create_metadata(unique_models, latlon, location_name)
                              \o to_csv(table.columns, table.rows),
                  filename |-> FileName("all_models", latlon)]
            ELSE [data |-> create_metadata(<<key>>, latlon, location_name)
                              \o to_csv(table.columns, table.rows),
                  filename |-> FileName(key, latlon)]]

\* download_files: one entry per model of the table and "_combined".
DownloadFiles(table, latlon, location_name) ==
    LET unique_models == SortedNames({table.rows[i].model : i \in 1..Len(table.rows)})
    IN  [key \in Range(unique_models) \cup {"_combined"} |->
            IF key = "_combined"
            THEN [data |-> create_metadata(unique_models, latlon, location_name)
                              \o to_csv(table.columns, table.rows),
                  filename |-> FileName("all_models", latlon)]
            ELSE [data |-> create_metadata(<<key>>, latlon, location_name)
                              \o to_csv(table.columns, RowsOfModel(table.rows, key)),
                  filename |-> FileName(key, latlon)]]

Package_once(st, table, latlon, location_name) ==
    LET keys1 == st.keys \cup {"download_data", "downloads_ready"}
        stale == \/ "download_data" \notin st.keys
                 \/ DOMAIN st.download_data = {}
    IN  IF stale
        THEN [st EXCEPT
                !.keys = keys1 \cup {"data_hash", "download_info"},
                !.download_data = DownloadFiles(table, latlon, location_name),
                !.data_hash = Hash(table),
                !.download_info =
                    [total_rows |-> Len(table.rows),
                     unique_models |->
                        SortedNames({table.rows[i].model : i \in 1..Len(table.rows)})],
                !.downloads_ready = TRUE]
        ELSE [st EXCEPT !.keys = keys1]

\* Lines 976-1110 on session state st, for the table shown and the location
\* variables of this script run.
Package(st, table, latlon, location_name) ==
    LET keys1 == st.keys \cup {"download_data", "downloads_ready"}
        stale == \/ "download_data" \notin st.keys
                 \/ DOMAIN st.download_data = {}
                 \/ "data_hash" \notin st.keys
                 \/ st.data_hash # Hash(table)
    IN  IF stale
        THEN [st EXCEPT
                !.keys = keys1 \cup {"data_hash", "download_info"},
                !.download_data = DownloadFiles(table, latlon, location_name),
                !.data_hash = Hash(table),
                !.download_info =
                    [total_rows |-> Len(table.rows),
                     unique_models |->
                        SortedNames({table.rows[i].model : i \in 1..Len(table.rows)})],
                !.downloads_ready = TRUE]
        ELSE [st EXCEPT !.keys = keys1]

(***************************************************************************)
(* The remote catalog as the sweep sees it                                 *)
(*                                                                         *)
(* The catalog holds one image per model, scenario and day; the model      *)
(* looks at a few sample days.  filterDate(start, end) keeps the images    *)
(* with start <= time < end.                                               *)
(***************************************************************************)
CatalogDays ==
    {<<2000, 1, 1>>, <<2000, 1, 2>>, <<2009, 12, 31>>,
     <<2010, 1, 1>>, <<2010, 1, 2>>, <<2014, 12, 31>>,
     <<2015, 1, 1>>, <<2015, 1, 2>>, <<2019, 12, 31>>,
     <<2020, 1, 1>>, <<2020, 1, 2>>, <<2029, 12, 31>>}

\* The days of the images of a scenario that filterDate(start, end) keeps.
ImagesIn(scenario, start, end) ==
    {day \in CatalogDays :
        /\ IF scenario = "historical"
           THEN DateLeq(day, <<2014, 12, 31>>)
           ELSE DateLeq(<<2015, 1, 1>>, day)
        /\ to_datetime(start) <= to_datetime(day)
        /\ to_datetime(day) < to_datetime(end)}

\* The raw value of a band on a day in a model's image.
CatalogValue(model, band, day) ==
    LET shift == (IF model = "ACCESS-ESM1-5" THEN 0 ELSE 10) + (day[3] - 1)
    IN  IF band = "tas" THEN NumCell(28315 + 100 * shift, 100)
        ELSE IF band = "pr" THEN NumCell(1 + shift, 86400)
        ELSE NumCell(50 + shift, 1)

TimeCell(day) ==
    NumCell(to_datetime(day) * HoursPerDay, 1)

\* getRegion's well-formed answer for the images of `days`.
RegionRows(model, bands, days) ==
    [i \in 1..Len(days) |->
        MetaCells \o <<TimeCell(days[i])>>
                  \o [b \in 1..Len(bands) |-> CatalogValue(model, bands[b], days[i])]]

RegionHeader(bands) ==
    MetaColumns \o <<"time">> \o bands

\* The row with a non-numeric first band value.
Garbled(row, bands) ==
    [row EXCEPT ![Len(row) - Len(bands) + 1] = TextCell]

\* The answers the remote may give to one fetch of the sweep: no image, a
\* failing getRegion, every value of every image, a non-numeric value in the
\* first row.
SweepRemotes(model, scenario, start, end, bands) ==
    LET days == SortedDates(ImagesIn(scenario, start, end))
        rows == RegionRows(model, bands, days)
        names == [ok |-> TRUE, names |-> AVAILABLE_BANDS]
        some == [ok |-> TRUE, n |-> Len(days)]
        answer(arr) == [size |-> some, bandNames |-> names,
                        region |-> [ok |-> TRUE, arr |-> arr]]
    IN  {[size |-> [ok |-> TRUE, n |-> 0], bandNames |-> names,
          region |-> [ok |-> TRUE, arr |-> <<>>]]}
            \cup (IF days = <<>> THEN {}
                  ELSE {[size |-> some, bandNames |-> names,
                         region |-> [ok |-> FALSE, arr |-> <<>>]],
                        answer(<<RegionHeader(bands)>> \o rows),
                        answer(<<RegionHeader(bands)>>
                                 \o [rows EXCEPT ![1] = Garbled(rows[1], bands)])})

(***************************************************************************)
(* main(): session state and the script run                                *)
(***************************************************************************)
London == <<515074, -1278>>
Paris == <<488566, 23522>>

\* get_location_name(lat, lon): the display name the geocoder gives.
get_location_name(latlon) ==
    IF latlon = London THEN "London, England, United Kingdom"
    ELSE IF latlon = Paris THEN "Paris, Ile-de-France, France"
    ELSE "formatted coordinates"

FreshSession ==
    [keys |-> {},
     location_name |-> "",
     cached_dataframe |-> NoTable,
     cached_latlon |-> <<0, 0>>,
     cached_location |-> "",
     cached_ensemble |-> FALSE,
     cached_models |-> <<>>,
     cached_bands |-> <<>>,
     download_data |-> NoDownloads,
     data_hash |-> NoTable,
     download_info |-> [total_rows |-> 0, unique_models |-> <<>>],
     downloads_ready |-> FALSE,
     ee_project |-> "",
     ee_initialized |-> FALSE]

(***************************************************************************)
(* _ensure_ee_initialized and the sidebar's connection gate                *)
(*                                                                         *)
(* The environment says how each attempt to connect would end:             *)
(*   installed    the ee module could be imported;                         *)
(*   env_project  the EE_PROJECT environment variable ("" when unset);     *)
(*   existing     ee.Initialize(project=...) succeeds with the credentials *)
(*                already on the machine;                                  *)
(*   sa           service-account credentials: "none" supplied, "accepted" *)
(*                or "rejected" by ee.Initialize, or "unreadable" (building *)
(*                the credentials object raises);                          *)
(*   cloud        STREAMLIT_SERVER_ENABLED or STREAMLIT_RUNTIME is set;    *)
(*   oauth        ee.Authenticate() "throws", or returns and the          *)
(*                following ee.Initialize is "accepted" or "rejected".     *)
(***************************************************************************)
DEFAULT_PROJECT == "axial-edition-469618-t6"

\* str.strip() on the project texts of the model.
Strip(text) ==
    IF text = " " THEN "" ELSE text

\* What a call returns or how it ends: a (bool, message) pair, or an
\* exception; st is the session state it leaves and initialized says whether
\* an ee.Initialize call of it succeeded.
EnsureResult(raised, ok, msg, st, initialized) ==
    [raised |-> raised, ok |-> ok, msg |-> msg, st |-> st, initialized |-> initialized]

\* _try_init_with_credentials succeeded: line 234.
Connected(st) ==
    [st EXCEPT !.keys = @ \cup {"ee_initialized"}, !.ee_initialized = TRUE]

\* Lines 206-300.  last_sa_err is bound by the `else` of line 284 (no
\* credentials) and by the `except` of line 281 (building the credentials
\* raised); when ee.Initialize rejects the credentials neither runs, and the
\* f-string of line 290 reads an unbound local.
_ensure_ee_initialized(st, project_arg, env) ==
    LET project == Strip(IF env.env_project # "" THEN env.env_project ELSE project_arg)
        last_sa_err_bound == env.sa \in {"none", "unreadable"}
    IN  IF ~env.installed
        THEN EnsureResult(FALSE, FALSE, "ee not installed", st, FALSE)
        ELSE IF "ee_initialized" \in st.keys /\ st.ee_initialized
        THEN EnsureResult(FALSE, TRUE, "already initialized", st, FALSE)
        ELSE IF project = ""
        THEN EnsureResult(FALSE, FALSE, "Please specify a Cloud Project", st, FALSE)
        ELSE IF env.existing
        THEN EnsureResult(FALSE, TRUE, "initialized with existing credentials",
                          Connected(st), TRUE)
        ELSE IF env.sa = "accepted"
        THEN EnsureResult(FALSE, TRUE, "initialized with service account",
                          Connected(st), TRUE)
        ELSE IF env.cloud
        THEN IF last_sa_err_bound
             THEN EnsureResult(FALSE, FALSE, "Streamlit deploy requires a service account",
                               st, FALSE)
             ELSE EnsureResult(TRUE, FALSE, "UnboundLocalError", st, FALSE)
        ELSE IF env.oauth = "throws"
        THEN EnsureResult(FALSE, FALSE, "OAuth failed and no service account available",
                          st, FALSE)
        ELSE IF env.oauth = "accepted"
        THEN EnsureResult(FALSE, TRUE, "authenticated via OAuth", Connected(st), TRUE)
        ELSE EnsureResult(FALSE, FALSE, "initialization error", st, FALSE)

\* How ui_sidebar leaves its connection part (lines 329-367): it goes on
\* ("proceed"), calls st.stop() ("stopped"), calls st.rerun() after a
\* reconnect ("rerun"), or an exception leaves it ("ee_raised").
SidebarResult(how, st, initialized) ==
    [how |-> how, st |-> st, initialized |-> initialized]

Sidebar_without_stop(st, e) ==
    LET st1 == IF "ee_project" \in st.keys THEN st
               ELSE [st EXCEPT !.keys = @ \cup {"ee_project"}, !.ee_project = DEFAULT_PROJECT]
        auto == IF "ee_initialized" \in st1.keys
                THEN EnsureResult(FALSE, TRUE, "", st1, FALSE)
                ELSE _ensure_ee_initialized(st1, st1.ee_project, e.env)
        st2 == [auto.st EXCEPT !.keys = @ \cup {"ee_project", "ee_initialized"},
                               !.ee_project = Strip(e.text),
                               !.ee_initialized = FALSE]
        again == _ensure_ee_initialized(st2, st2.ee_project, e.env)
    IN  IF auto.raised THEN SidebarResult("ee_raised", auto.st, FALSE)
        ELSE IF e.press
        THEN IF again.raised
             THEN SidebarResult("ee_raised", again.st, auto.initialized)
             ELSE SidebarResult("rerun", again.st, auto.initialized \/ again.initialized)
        ELSE SidebarResult("proceed", auto.st, auto.initialized)

Sidebar(st, e) ==
    LET st1 == IF "ee_project" \in st.keys THEN st
               ELSE [st EXCEPT !.keys = @ \cup {"ee_project"}, !.ee_project = DEFAULT_PROJECT]
        auto == IF "ee_initialized" \in st1.keys
                THEN EnsureResult(FALSE, TRUE, "", st1, FALSE)
                ELSE _ensure_ee_initialized(st1, st1.ee_project, e.env)
        st2 == [auto.st EXCEPT !.keys = @ \cup {"ee_project", "ee_initialized"},
                               !.ee_project = Strip(e.text),
                               !.ee_initialized = FALSE]
        again == _ensure_ee_initialized(st2, st2.ee_project, e.env)
    IN  IF auto.raised THEN SidebarResult("ee_raised", auto.st, FALSE)
        ELSE IF e.press
        THEN IF again.raised
             THEN SidebarResult("ee_raised", again.st, auto.initialized)
             ELSE SidebarResult("rerun", again.st, auto.initialized \/ again.initialized)
        ELSE IF ~("ee_initialized" \in auto.st.keys /\ auto.st.ee_initialized)
        THEN SidebarResult("stopped", auto.st, auto.initialized)
        ELSE SidebarResult("proceed", auto.st, auto.initialized)

\* An environment in which the first ee.Initialize succeeds, and no press of
\* the Reconnect button.
WorkingEnv ==
    [installed |-> TRUE, env_project |-> "", existing |-> TRUE, sa |-> "none",
     cloud |-> FALSE, oauth |-> "throws"]

WorkingEe ==
    [env |-> WorkingEnv, press |-> FALSE, text |-> DEFAULT_PROJECT, connected |-> FALSE]

\* Nothing rendered in the download section.
NotShown ==
    [rendered |-> FALSE, table |-> NoTable, latlon |-> <<0, 0>>, location_name |-> "",
     include_ensemble |-> FALSE, sel_models |-> <<>>, sel_bands |-> <<>>]

(***************************************************************************)
(* The sidebar's scenario filter                                           *)
(***************************************************************************)
\* A key of DECADES, "{y}s ({y}-01-01 to {y+9}-12-31)": the text before its
\* first "s" and the range it maps to.
DecadeKey(y) ==
    [digits |-> y, range |-> DecadeOf(y)]

DecadeKeys ==
    {DecadeKey(y) : y \in {yy \in DecadeFirstYear..(DecadeStopYear - 1) :
                             (yy - DecadeFirstYear) % DecadeStep = 0}}

\* int(decade_str.split("s")[0])
StartYearOf(decade_str) ==
    decade_str.digits

available_scenarios_strict(decades, scenarios) ==
    LET has_historical_decades ==
            \E d \in decades : StartYearOf(d) < 2010
        has_future_decades ==
            \E d \in decades : StartYearOf(d) >= 2010
        Offered(sc) == IF sc = "historical" THEN has_historical_decades
                       ELSE has_future_decades
    IN  IF decades = {} THEN scenarios ELSE SelectSeq(scenarios, Offered)

\* Lines 504-527: the scenarios the multiselect offers for the selected
\* decade keys (the order of the selected keys has no effect on the flags).
available_scenarios(decades, scenarios) ==
    LET has_historical_decades ==
            \E d \in decades : StartYearOf(d) <= 2010
        has_future_decades ==
            \E d \in decades : StartYearOf(d) >= 2010
        Offered(sc) == IF sc = "historical" THEN has_historical_decades
                       ELSE has_future_decades
    IN  IF decades = {} THEN scenarios ELSE SelectSeq(scenarios, Offered)

NoPos == <<0, 0, 0>>

IdleSweep ==
    [pos |-> NoPos, all_frames |-> <<>>, error_log |-> <<>>, count |-> 0, total |-> 0]

IdleUi ==
    [coords |-> London, decades |-> <<>>, sel_bands |-> <<>>, sel_models |-> <<>>,
     sel_scen |-> <<>>, include_individual |-> TRUE, include_ensemble |-> TRUE,
     run |-> FALSE]

ValidSelection_no_ensemble_gate(u) ==
    /\ u.sel_bands # <<>>
    /\ u.sel_models # <<>>
    /\ u.sel_scen # <<>>
    /\ u.decades # <<>>
    /\ (u.include_individual \/ u.include_ensemble)

\* The validation of lines 765-783: TRUE when the sweep may start.
ValidSelection(u) ==
    /\ u.sel_bands # <<>>
    /\ u.sel_models # <<>>
    /\ u.sel_scen # <<>>
    /\ u.decades # <<>>
    /\ (u.include_individual \/ u.include_ensemble)
    /\ ~(u.include_ensemble /\ Len(u.sel_models) < 2)

\* Lines 920-927.
CacheOutput(st, table, latlon, location_name, u) ==
    [st EXCEPT
        !.keys = @ \cup {"cached_dataframe", "cached_lat", "cached_lon", "cached_location",
                         "cached_ensemble", "cached_models", "cached_bands"},
        !.cached_dataframe = table,
        !.cached_latlon = latlon,
        !.cached_location = location_name,
        !.cached_ensemble = u.include_ensemble,
        !.cached_models = u.sel_models,
        !.cached_bands = u.sel_bands]

\* The position after the last model of (si, di), or after a skipped (si, di).
NextAfterDecade(u, si, di) ==
    IF di < Len(u.decades) THEN <<si, di + 1, 1>>
    ELSE IF si < Len(u.sel_scen) THEN <<si + 1, 1, 1>>
    ELSE NoPos

NextAfterModel(u, si, di, mi) ==
    IF mi < Len(u.sel_models) THEN <<si, di, mi + 1>>
    ELSE NextAfterDecade(u, si, di)

\* Line 810.
SweepTotal_no_models(u) ==
    Len(u.sel_scen) * Len(u.decades)

SweepTotal(u) ==
    Len(u.sel_scen) * Len(u.decades) * Len(u.sel_models)

\* Lines 785-815: the session state and the locals as the loops begin.
StartSweep_dropping_cache(st, u) ==
    [st |-> [st EXCEPT !.downloads_ready = FALSE],
     locals |-> [pos |-> <<1, 1, 1>>, all_frames |-> <<>>, error_log |-> <<>>,
                 count |-> 0, total |-> SweepTotal(u)]]

StartSweep(st, u) ==
    [st |-> st,
     locals |-> [pos |-> <<1, 1, 1>>, all_frames |-> <<>>, error_log |-> <<>>,
                 count |-> 0, total |-> SweepTotal(u)]]

\* What the table, chart and download sections render (lines 929-1155).
Rendered(table, latlon, location_name, include_ensemble, sel_models, sel_bands) ==
    [rendered |-> TRUE, table |-> table, latlon |-> latlon,
     location_name |-> location_name, include_ensemble |-> include_ensemble,
     sel_models |-> sel_models, sel_bands |-> sel_bands]

CachedView_of_widgets(st, u, location_name) ==
    Rendered(st.cached_dataframe, u.coords, location_name, u.include_ensemble,
             u.sel_models, u.sel_bands)

\* Lines 748-759: the locals of a run that shows the cached result.
CachedView(st, u, location_name) ==
    Rendered(st.cached_dataframe, st.cached_latlon, st.cached_location,
             st.cached_ensemble, st.cached_models, st.cached_bands)

\* The script run from its start to the first fetch or to its end (ui_sidebar,
\* then main() up to line 815).
MainStart ==
    /\ pc = "start"
    /\ ss0' = ss
    /\ fetchLog' = <<>>
    /\ UNCHANGED <<ui, clampVars, convVars, fetchVars, ensureVars, filtVars>>
    /\ LET sb == Sidebar(ss, ee)
           location_name == get_location_name(ui.coords)
           st == [sb.st EXCEPT !.keys = @ \cup {"location_name"},
                               !.location_name = location_name]
           view == CachedView(st, ui, location_name)
           begun == StartSweep(st, ui)
       IN  /\ ee' = [ee EXCEPT !.press = FALSE, !.connected = @ \/ sb.initialized]
           /\ IF sb.how = "rerun"
              THEN /\ ss' = sb.st
                   /\ outcome' = "rerun"
                   /\ pc' = "start"               \* st.rerun(): the script starts again
                   /\ sweep' = IdleSweep
                   /\ shown' = NotShown
              ELSE IF sb.how # "proceed"
              THEN /\ ss' = sb.st
                   /\ outcome' = sb.how
                   /\ pc' = "waiting"
                   /\ sweep' = IdleSweep
                   /\ shown' = NotShown
              ELSE IF st.downloads_ready /\ ~ui.run
              THEN /\ ss' = Package(st, view.table, view.latlon, view.location_name)
                   /\ outcome' = "cached"
                   /\ pc' = "waiting"
                   /\ sweep' = IdleSweep
                   /\ shown' = view
              ELSE IF ~ui.run
              THEN /\ ss' = st
                   /\ outcome' = "info"
                   /\ pc' = "waiting"
                   /\ sweep' = IdleSweep
                   /\ shown' = NotShown
              ELSE IF ~ValidSelection(ui)
              THEN /\ ss' = st
                   /\ outcome' = "invalid"
                   /\ pc' = "waiting"
                   /\ sweep' = IdleSweep
                   /\ shown' = NotShown
              ELSE /\ ss' = begun.st
                   /\ outcome' = "running"
                   /\ pc' = "sweep"
                   /\ sweep' = begun.locals
                   /\ shown' = NotShown

\* Lines 837-927 and 976-1110: what follows the loops, for the locals sw.
Finish(sw, flog) ==
    /\ pc' = "waiting"
    /\ fetchLog' = flog
    /\ sweep' = [sw EXCEPT !.pos = NoPos]
    /\ IF sw.all_frames = <<>>
       THEN /\ outcome' = "nodata"
            /\ ss' = ss
            /\ shown' = NotShown
       ELSE LET b == BuildOutput(sw.all_frames, ui.sel_scen, ui.sel_bands, ui.sel_models,
                                 ui.include_individual, ui.include_ensemble)
                table == Table(b.columns, b.out)
                location_name == get_location_name(ui.coords)
            IN  IF b.output_frames = <<>>
                THEN /\ outcome' = "raised"        \* pd.concat([]): ValueError
                     /\ ss' = ss
                     /\ shown' = NotShown
                ELSE /\ outcome' = "fetched"
                     /\ ss' = Package(CacheOutput(ss, table, ui.coords, location_name, ui),
                                      table, ui.coords, location_name)
                     /\ shown' = Rendered(table, ui.coords, location_name,
                                          ui.include_ensemble, ui.sel_models, ui.sel_bands)

Advance(sw, next, flog) ==
    IF next = NoPos
    THEN Finish(sw, flog)
    ELSE /\ pc' = "sweep"
         /\ sweep' = [sw EXCEPT !.pos = next]
         /\ fetchLog' = flog
         /\ outcome' = outcome
         /\ ss' = ss
         /\ shown' = shown

\* One pass of the loop body of lines 816-835 at the current position: the
\* clamp and, when the window is compatible, one fetch; after the last
\* position, the rest of main().
SweepStep ==
    /\ pc = "sweep"
    /\ UNCHANGED <<ui, ss0, ee, clampVars, convVars, fetchVars, ensureVars, filtVars>>
    /\ LET si == sweep.pos[1]
           di == sweep.pos[2]
           mi == sweep.pos[3]
           scenario == ui.sel_scen[si]
           start == ui.decades[di][1]
           end == ui.decades[di][2]
           adj == clamp_dates_for_scenario(start, end, scenario)
       IN  IF adj[1] = None
           THEN Advance([sweep EXCEPT !.error_log =
                            Append(@, [kind |-> "incompatible", scenario |-> scenario,
                                       start |-> start, end |-> end, model |-> ""])],
                        NextAfterDecade(ui, si, di), fetchLog)
           ELSE \E remote \in SweepRemotes(ui.sel_models[mi], scenario, adj[1], adj[2],
                                            ui.sel_bands) :
                  LET model == ui.sel_models[mi]
                      res == fetch_point_timeseries(adj[1], adj[2], ui.sel_bands, model,
                                                    scenario, remote)
                      entry == [scenario |-> scenario, start |-> adj[1], end |-> adj[2],
                                model |-> model,
                                size |-> IF remote.size.ok THEN remote.size.n ELSE -1,
                                calls |-> res.calls,
                                raised |-> res.raised, rows |-> Len(res.df)]
                      counted == [sweep EXCEPT !.count = @ + 1]
                  IN  IF res.raised
                      THEN /\ pc' = "waiting"
                           /\ outcome' = "raised"
                           /\ sweep' = counted
                           /\ fetchLog' = Append(fetchLog, entry)
                           /\ ss' = ss
                           /\ shown' = shown
                      ELSE IF res.df # <<>>
                      THEN Advance([counted EXCEPT !.all_frames = Append(@, res.df)],
                                   NextAfterModel(ui, si, di, mi), Append(fetchLog, entry))
                      ELSE Advance([counted EXCEPT !.error_log =
                                       Append(@, [kind |-> "nodata", scenario |-> scenario,
                                                  start |-> adj[1], end |-> adj[2],
                                                  model |-> model])],
                                   NextAfterModel(ui, si, di, mi), Append(fetchLog, entry))

(***************************************************************************)
(* Inputs of the pure functions                                            *)
(***************************************************************************)
MaxRows == 2

ClampDates ==
    {<<1900, 1, 1>>, <<1950, 1, 1>>, <<1959, 12, 31>>, <<2000, 2, 29>>,
     <<2005, 1, 1>>, <<2009, 12, 31>>, <<2010, 1, 1>>, <<2014, 12, 31>>,
     <<2015, 1, 1>>, <<2019, 12, 31>>, <<2020, 12, 31>>, <<2095, 1, 1>>,
     <<2099, 12, 31>>, <<2100, 12, 31>>, <<2101, 1, 1>>}

ClampScenarios ==
    Range(KNOWN_SCENARIOS) \cup {"ssp126"}

ConvBands ==
    Range(AVAILABLE_BANDS) \cup {"evspsbl", ""}

ConvValues ==
    {Rat(n, 100) : n \in {-100, 0, 1, 5, 27315, 28315, 29315, 30000}}
        \cup {<<1, 86400>>, <<1, 3>>}

FetchModel == "ACCESS-ESM1-5"
FetchScenario == "historical"
FetchStart == <<2000, 1, 1>>
FetchEnd == <<2009, 12, 31>>

FetchBands ==
    {<<"tas", "pr">>, <<"tas", "hurs", "pr">>}

SizeAnswers ==
    {[ok |-> FALSE, n |-> 0], [ok |-> TRUE, n |-> 0], [ok |-> TRUE, n |-> 2]}

BandNamesAnswers ==
    {[ok |-> FALSE, names |-> <<>>],
     [ok |-> TRUE, names |-> <<"tas", "tasmax", "pr">>],
     [ok |-> TRUE, names |-> <<"pr">>],
     [ok |-> TRUE, names |-> <<"huss">>]}

Headers ==
    {MetaColumns \o <<"time", "tas", "pr">>,
     MetaColumns \o <<"tas", "pr">>,
     MetaColumns \o <<"time", "pr">>}

Midnight == NumCell(to_datetime(<<2000, 1, 1>>) * HoursPerDay, 1)
Midday == NumCell(to_datetime(<<2000, 1, 2>>) * HoursPerDay + 12, 1)

\* Full rows (values, nulls, a text where a number belongs, a time that is
\* no number), and rows cut short after the first band, after the time cell
\* and before it.
RowSet ==
    {MetaCells \o <<Midnight, NumCell(28315, 100), NumCell(1, 86400)>>,
     MetaCells \o <<Midday, NumCell(1, 86400), NumCell(28315, 100)>>,
     MetaCells \o <<Midnight, NullCell, NumCell(1, 86400)>>,
     MetaCells \o <<Midday, NumCell(28315, 100), NullCell>>,
     MetaCells \o <<Midday, NullCell, NullCell>>,
     MetaCells \o <<TextCell, NumCell(28315, 100), NumCell(1, 86400)>>,
     MetaCells \o <<Midnight, TextCell, NumCell(1, 86400)>>,
     MetaCells \o <<Midday, NumCell(28315, 100), TextCell>>,
     MetaCells \o <<Midnight, NumCell(28315, 100)>>,
     MetaCells \o <<Midday>>,
     MetaCells}

RECURSIVE SeqsUpTo(_, _)
SeqsUpTo(S, n) ==
    IF n = 0 THEN {<<>>}
    ELSE LET shorter == SeqsUpTo(S, n - 1)
         IN  shorter \cup {Append(q, x) : q \in shorter, x \in S}

RegionAnswers ==
    {[ok |-> FALSE, arr |-> <<>>], [ok |-> TRUE, arr |-> <<>>]}
        \cup {[ok |-> TRUE, arr |-> <<h>> \o rows] :
                 h \in Headers, rows \in SeqsUpTo(RowSet, MaxRows)}

\* What the remote would answer to each of the three calls.  When the size
\* call fails or finds nothing the other answers are never asked for, so one
\* representative is enough there.
RemoteAnswers ==
    {[size |-> sz, bandNames |-> [ok |-> TRUE, names |-> <<"tas", "tasmax", "pr">>],
      region |-> [ok |-> TRUE, arr |-> <<>>]] : sz \in SizeAnswers}
        \cup {[size |-> [ok |-> TRUE, n |-> 2], bandNames |-> bn, region |-> rg] :
                 bn \in BandNamesAnswers, rg \in RegionAnswers}

IdleClampIn == [start |-> None, end |-> None, scenario |-> ""]
IdleClampOut == [done |-> FALSE, val |-> NoneNone]
IdleConvIn == [band |-> "", value |-> <<0, 1>>]
IdleConvOut == [done |-> FALSE, val |-> <<0, 1>>]
IdleFetchIn ==
    [bands |-> <<>>,
     remote |-> [size |-> [ok |-> FALSE, n |-> 0],
                 bandNames |-> [ok |-> FALSE, names |-> <<>>],
                 region |-> [ok |-> FALSE, arr |-> <<>>]]]
IdleFetchOut == [done |-> FALSE, val |-> FetchResult(FALSE, EmptyFrame, <<>>, "none")]

IdleEnsure ==
    /\ ensureIn = [st |-> FreshSession, project |-> "", env |-> WorkingEnv]
    /\ ensureOut = [done |-> FALSE,
                    val |-> EnsureResult(FALSE, FALSE, "", FreshSession, FALSE)]

IdleFilter ==
    /\ filtIn = [decades |-> {}]
    /\ filtOut = [done |-> FALSE, val |-> <<>>]

\* No script run has happened.
IdleMain ==
    /\ ui = IdleUi
    /\ ee = WorkingEe
    /\ shown = NotShown
    /\ pc = "off"
    /\ ss = FreshSession
    /\ sweep = IdleSweep
    /\ fetchLog = <<>>
    /\ outcome = "none"
    /\ ss0 = FreshSession

IdlePure ==
    /\ clampIn = IdleClampIn /\ clampOut = IdleClampOut
    /\ convIn = IdleConvIn /\ convOut = IdleConvOut
    /\ fetchIn = IdleFetchIn /\ fetchOut = IdleFetchOut
    /\ IdleEnsure
    /\ IdleFilter

(***************************************************************************)
(* Specification of clamp_dates_for_scenario on drawn arguments            *)
(***************************************************************************)
InitClamp ==
    /\ clampIn \in [start : ClampDates, end : ClampDates, scenario : ClampScenarios]
    /\ clampOut = IdleClampOut
    /\ convIn = IdleConvIn /\ convOut = IdleConvOut
    /\ fetchIn = IdleFetchIn /\ fetchOut = IdleFetchOut
    /\ IdleEnsure
    /\ IdleFilter
    /\ IdleMain

ClampCall ==
    /\ ~clampOut.done
    /\ clampIn # IdleClampIn
    /\ clampOut' = [done |-> TRUE,
                    val |-> clamp_dates_for_scenario(clampIn.start, clampIn.end,
                                                     clampIn.scenario)]
    /\ UNCHANGED <<clampIn, convVars, fetchVars, ensureVars, filtVars, mainVars>>

SpecClamp == InitClamp /\ [][ClampCall]_vars

(***************************************************************************)
(* Specification of convert_units on drawn arguments                       *)
(***************************************************************************)
InitConvert ==
    /\ convIn \in [band : ConvBands, value : ConvValues]
    /\ convOut = IdleConvOut
    /\ clampIn = IdleClampIn /\ clampOut = IdleClampOut
    /\ fetchIn = IdleFetchIn /\ fetchOut = IdleFetchOut
    /\ IdleEnsure
    /\ IdleFilter
    /\ IdleMain

ConvertCall ==
    /\ ~convOut.done
    /\ convIn \in [band : ConvBands, value : ConvValues]
    /\ convOut' = [done |-> TRUE, val |-> convert_units(convIn.band, convIn.value)]
    /\ UNCHANGED <<convIn, clampVars, fetchVars, ensureVars, filtVars, mainVars>>

SpecConvert == InitConvert /\ [][ConvertCall]_vars

(***************************************************************************)
(* Specification of fetch_point_timeseries on drawn remote answers         *)
(***************************************************************************)
InitFetch ==
    /\ fetchIn \in [bands : FetchBands, remote : RemoteAnswers]
    /\ fetchOut = IdleFetchOut
    /\ clampIn = IdleClampIn /\ clampOut = IdleClampOut
    /\ convIn = IdleConvIn /\ convOut = IdleConvOut
    /\ IdleEnsure
    /\ IdleFilter
    /\ IdleMain

FetchCall ==
    /\ ~fetchOut.done
    /\ fetchIn # IdleFetchIn
    /\ fetchOut' = [done |-> TRUE,
                    val |-> fetch_point_timeseries(FetchStart, FetchEnd, fetchIn.bands,
                                                   FetchModel, FetchScenario,
                                                   fetchIn.remote)]
    /\ UNCHANGED <<fetchIn, clampVars, convVars, ensureVars, filtVars, mainVars>>

SpecFetch == InitFetch /\ [][FetchCall]_vars

(***************************************************************************)
(* Specification of _ensure_ee_initialized on drawn arguments              *)
(***************************************************************************)
\* The sessions a call can meet: no flag yet, the flag cleared by the
\* Reconnect button, the flag set by an earlier call; the project texts: empty,
\* blank, a project id; every environment.
InitEnsure ==
    /\ ensureIn \in
          [st : {FreshSession,
                 [FreshSession EXCEPT !.keys = {"ee_initialized"}],
                 Connected(FreshSession)},
           project : {"", " ", DEFAULT_PROJECT},
           env : [installed : BOOLEAN, env_project : {"", "my-project"},
                  existing : BOOLEAN,
                  sa : {"none", "accepted", "rejected", "unreadable"},
                  cloud : BOOLEAN, oauth : {"accepted", "rejected", "throws"}]]
    /\ ensureOut = [done |-> FALSE,
                    val |-> EnsureResult(FALSE, FALSE, "", FreshSession, FALSE)]
    /\ clampIn = IdleClampIn /\ clampOut = IdleClampOut
    /\ convIn = IdleConvIn /\ convOut = IdleConvOut
    /\ fetchIn = IdleFetchIn /\ fetchOut = IdleFetchOut
    /\ IdleFilter
    /\ IdleMain

EnsureCall ==
    /\ ~ensureOut.done
    /\ ensureOut' = [done |-> TRUE,
                     val |-> _ensure_ee_initialized(ensureIn.st, ensureIn.project,
                                                    ensureIn.env)]
    /\ UNCHANGED <<ensureIn, clampVars, convVars, fetchVars, filtVars, mainVars>>

SpecEnsure == InitEnsure /\ [][EnsureCall]_vars

(***************************************************************************)
(* Specification of the scenario filter on drawn decade selections         *)
(***************************************************************************)
MaxSelected == 2

InitFilter ==
    /\ filtIn \in [decades : {sel \in SUBSET DecadeKeys : Cardinality(sel) <= MaxSelected}]
    /\ filtOut = [done |-> FALSE, val |-> <<>>]
    /\ clampIn = IdleClampIn /\ clampOut = IdleClampOut
    /\ convIn = IdleConvIn /\ convOut = IdleConvOut
    /\ fetchIn = IdleFetchIn /\ fetchOut = IdleFetchOut
    /\ IdleEnsure
    /\ IdleMain

FilterCall ==
    /\ ~filtOut.done
    /\ filtOut' = [done |-> TRUE,
                   val |-> available_scenarios(filtIn.decades, KNOWN_SCENARIOS)]
    /\ UNCHANGED <<filtIn, clampVars, convVars, fetchVars, ensureVars, mainVars>>

SpecFilter == InitFilter /\ [][FilterCall]_vars

(***************************************************************************)
(* Specification of one script run with Fetch pressed, in a fresh session  *)
(***************************************************************************)
Decade2000s == DecadeOf(2000)
Decade2010s == DecadeOf(2010)
Decade2020s == DecadeOf(2020)

SweepBandChoices ==
    {<<>>, <<"tas">>, <<"tas", "pr">>}

SweepModelChoices ==
    {<<>>, <<"MPI-ESM1-2-LR">>, <<"MPI-ESM1-2-LR", "ACCESS-ESM1-5">>}

SweepScenarioChoices ==
    {<<>>, <<"historical">>, <<"ssp245", "historical">>}

SweepDecadeChoices ==
    {<<>>, <<Decade2000s>>, <<Decade2010s, Decade2000s>>}

SweepUi ==
    [coords : {London}, decades : SweepDecadeChoices, sel_bands : SweepBandChoices,
     sel_models : SweepModelChoices, sel_scen : SweepScenarioChoices,
     include_individual : BOOLEAN, include_ensemble : BOOLEAN, run : {TRUE}]

InitSweep ==
    /\ IdlePure
    /\ ui \in SweepUi
    /\ pc = "start"
    /\ ss = FreshSession
    /\ sweep = IdleSweep
    /\ fetchLog = <<>>
    /\ outcome = "none"
    /\ ss0 = FreshSession
    /\ ee = WorkingEe
    /\ shown = NotShown

NextSweep ==
    \/ MainStart
    \/ SweepStep

SpecSweep == InitSweep /\ [][NextSweep]_vars

(***************************************************************************)
(* Specification of a session: script runs one after the other             *)
(***************************************************************************)
\* A selection of two models at either place with any output options, of one
\* model with individual output, and the selections with one list left empty.
SessionUi ==
    [coords : {London, Paris}, decades : {<<Decade2000s>>}, sel_bands : {<<"tas">>},
     sel_models : {<<"MPI-ESM1-2-LR", "ACCESS-ESM1-5">>}, sel_scen : {<<"historical">>},
     include_individual : BOOLEAN, include_ensemble : BOOLEAN, run : BOOLEAN]
        \cup
    [coords : {London, Paris}, decades : {<<Decade2000s>>}, sel_bands : {<<"tas">>},
     sel_models : {<<"MPI-ESM1-2-LR">>}, sel_scen : {<<"historical">>},
     include_individual : {TRUE}, include_ensemble : BOOLEAN, run : BOOLEAN]
        \cup
    {[coords |-> London, decades |-> d, sel_bands |-> b, sel_models |-> m,
      sel_scen |-> sc, include_individual |-> TRUE, include_ensemble |-> FALSE,
      run |-> TRUE] :
        <<d, b, m, sc>> \in
            {<<<<>>, <<"tas">>, <<"MPI-ESM1-2-LR">>, <<"historical">>>>,
             <<<<Decade2000s>>, <<>>, <<"MPI-ESM1-2-LR">>, <<"historical">>>>,
             <<<<Decade2000s>>, <<"tas">>, <<>>, <<"historical">>>>,
             <<<<Decade2000s>>, <<"tas">>, <<"MPI-ESM1-2-LR">>, <<>>>>}}

\* The user changes widgets or presses Fetch: Streamlit starts the script
\* again with the new widget values; the locals of the last run are gone.
Interact ==
    /\ pc = "waiting"
    /\ ui' \in SessionUi
    /\ pc' = "start"
    /\ sweep' = IdleSweep
    /\ fetchLog' = <<>>
    /\ outcome' = "none"
    /\ ss0' = ss
    /\ shown' = NotShown
    /\ UNCHANGED <<ss, ee, clampVars, convVars, fetchVars, ensureVars, filtVars>>

Init ==
    /\ IdlePure
    /\ ui \in {u \in SessionUi : ~u.run}
    /\ pc = "start"
    /\ ss = FreshSession
    /\ sweep = IdleSweep
    /\ fetchLog = <<>>
    /\ outcome = "none"
    /\ ss0 = FreshSession
    /\ ee = WorkingEe
    /\ shown = NotShown

Next ==
    \/ Interact
    \/ MainStart
    \/ SweepStep

Spec == Init /\ [][Next]_vars

(***************************************************************************)
(* Specification of a session in which connecting can fail                 *)
(***************************************************************************)
\* One model at London, with and without a press of Fetch.
ConnectUi ==
    [coords : {London}, decades : {<<Decade2000s>>}, sel_bands : {<<"tas">>},
     sel_models : {<<"MPI-ESM1-2-LR">>}, sel_scen : {<<"historical">>},
     include_individual : {TRUE}, include_ensemble : {FALSE}, run : BOOLEAN]

\* Environments in which the first attempt works, nothing works, only the
\* interactive login works, the service account is rejected on Streamlit
\* Cloud, and the ee module is missing.
ConnectEnvs ==
    {WorkingEnv,
     [WorkingEnv EXCEPT !.existing = FALSE],
     [WorkingEnv EXCEPT !.existing = FALSE, !.oauth = "accepted"],
     [WorkingEnv EXCEPT !.existing = FALSE, !.sa = "rejected", !.cloud = TRUE],
     [WorkingEnv EXCEPT !.installed = FALSE]}

\* The user changes widgets or presses Fetch.
InteractConnect ==
    /\ pc = "waiting"
    /\ ui' \in ConnectUi
    /\ pc' = "start"
    /\ sweep' = IdleSweep
    /\ fetchLog' = <<>>
    /\ outcome' = "none"
    /\ ss0' = ss
    /\ shown' = NotShown
    /\ UNCHANGED <<ss, ee, clampVars, convVars, fetchVars, ensureVars, filtVars>>

\* The user presses "Change Project & Reconnect" with some text in the
\* project field; how the environment answers the attempts of the new run
\* is open.  A run has one pressed button at most, so Fetch is not pressed.
Reconnect ==
    /\ pc = "waiting"
    /\ ui' = [ui EXCEPT !.run = FALSE]
    /\ \E env \in ConnectEnvs, text \in {DEFAULT_PROJECT, " "} :
          ee' = [ee EXCEPT !.env = env, !.text = text, !.press = TRUE]
    /\ pc' = "start"
    /\ sweep' = IdleSweep
    /\ fetchLog' = <<>>
    /\ outcome' = "none"
    /\ ss0' = ss
    /\ shown' = NotShown
    /\ UNCHANGED <<ss, clampVars, convVars, fetchVars, ensureVars, filtVars>>

InitConnect ==
    /\ IdlePure
    /\ ui \in {u \in ConnectUi : ~u.run}
    /\ pc = "start"
    /\ ss = FreshSession
    /\ sweep = IdleSweep
    /\ fetchLog = <<>>
    /\ outcome = "none"
    /\ ss0 = FreshSession
    /\ ee \in {[WorkingEe EXCEPT !.env = env] : env \in ConnectEnvs}
    /\ shown = NotShown

NextConnect ==
    \/ InteractConnect
    \/ Reconnect
    \/ MainStart
    \/ SweepStep

SpecConnect == InitConnect /\ [][NextConnect]_vars

(***************************************************************************)
(* Claims about clamp_dates_for_scenario (SpecClamp)                       *)
(***************************************************************************)
ValidMin(scenario) ==
    IF scenario = "historical" THEN <<1950, 1, 1>> ELSE <<2015, 1, 1>>

ValidMax(scenario) ==
    IF scenario = "historical" THEN <<2014, 12, 31>> ELSE <<2100, 12, 31>>

\* Some calendar day lies in both the requested and the valid window.  A
\* non-empty intersection of two closed intervals holds the larger of the two
\* lower ends, so the lower ends are candidates enough.
WindowsOverlap(start, end, scenario) ==
    \E day \in {start, ValidMin(scenario)} :
        /\ DateLeq(start, day) /\ DateLeq(day, end)
        /\ DateLeq(ValidMin(scenario), day) /\ DateLeq(day, ValidMax(scenario))

\* C3: whenever clamp_dates_for_scenario returns a non-null pair, that pair is
\* (max(start, vmin), min(end, vmax)) for the scenario's valid window
\* [vmin, vmax], dates compared as calendar dates.
C3_ClampIsIntersection ==
    (clampOut.done /\ clampOut.val # NoneNone) =>
        clampOut.val = <<DateMax(clampIn.start, ValidMin(clampIn.scenario)),
                         DateMin(clampIn.end, ValidMax(clampIn.scenario))>>

\* clamp(1900-01-01, 2020-12-31, historical) = (1950-01-01, 2014-12-31)
C3_Witness ==
    /\ clampOut.done
    /\ clampIn = [start |-> <<1900, 1, 1>>, end |-> <<2020, 12, 31>>,
                  scenario |-> "historical"]
    /\ clampOut.val = <<<<1950, 1, 1>>, <<2014, 12, 31>>>>

\* C4: clamp_dates_for_scenario returns (None, None) exactly when no calendar
\* day lies in both the requested window and the scenario's valid window.
C4_NullIffEmptyIntersection ==
    clampOut.done =>
        ((clampOut.val = NoneNone) <=>
            ~WindowsOverlap(clampIn.start, clampIn.end, clampIn.scenario))

\* clamp(2095-01-01, 2099-12-31, historical) is the null pair.
C4_Witness ==
    /\ clampOut.done
    /\ clampIn = [start |-> <<2095, 1, 1>>, end |-> <<2099, 12, 31>>,
                  scenario |-> "historical"]
    /\ clampOut.val = NoneNone

(***************************************************************************)
(* Claims about convert_units (SpecConvert)                                *)
(***************************************************************************)
\* C5: convert_units(band, v) is v - 273.15 for tas, tasmax and tasmin,
\* v * 86400 for pr, and v itself for every other identifier, known or not.
C5_ConvertUnits ==
    convOut.done =>
        IF convIn.band \in {"tas", "tasmax", "tasmin"}
        THEN RatAdd(convOut.val, <<5463, 20>>) = convIn.value
        ELSE IF convIn.band = "pr"
        THEN RatDivInt(convOut.val, 86400) = convIn.value
        ELSE convOut.val = convIn.value

\* convert_units("tasmax", 283.15) = 10 has been computed.
C5_Witness ==
    /\ convOut.done
    /\ convIn = [band |-> "tasmax", value |-> <<5663, 20>>]
    /\ convOut.val = <<10, 1>>

(***************************************************************************)
(* Claims about fetch_point_timeseries (SpecFetch)                         *)
(***************************************************************************)
FetchAsked(op) ==
    \E i \in 1..Len(fetchOut.val.calls) : fetchOut.val.calls[i].op = op

\* The bands named in the getRegion query that was made.
FetchedBands ==
    LET q == CHOOSE c \in Range(fetchOut.val.calls) : c.op = "getRegion"
    IN  Range(q.bands)

\* The rows getRegion returned (none when it was not asked or raised).
ReturnedArr ==
    IF FetchAsked("getRegion") /\ fetchIn.remote.region.ok
    THEN fetchIn.remote.region.arr
    ELSE <<>>

\* Row i of arr carries a timestamp, so it has a calendar date.
RowHasDate(arr, i) ==
    /\ "time" \in Range(arr[1])
    /\ \E c \in 1..Len(arr[i]) :
           /\ c <= Len(arr[1])
           /\ arr[1][c] = "time" /\ \A e \in 1..(c - 1) : arr[1][e] # "time"
           /\ arr[i][c].k = "num"

RowDay(arr, i) ==
    LET c == CHOOSE e \in 1..Len(arr[1]) :
                 arr[1][e] = "time" /\ \A f \in 1..(e - 1) : arr[1][f] # "time"
    IN  arr[i][c].n \div 24

\* The cell of row i in the (first) column named band, when the row has one.
HasCell(arr, i, band) ==
    \E c \in 1..Len(arr[i]) :
        c <= Len(arr[1]) /\ arr[1][c] = band /\ \A e \in 1..(c - 1) : arr[1][e] # band

CellOf(arr, i, band) ==
    arr[i][CHOOSE c \in 1..Len(arr[i]) :
               c <= Len(arr[1]) /\ arr[1][c] = band /\ \A e \in 1..(c - 1) : arr[1][e] # band]

\* The (returned row, fetched band) pairs with a date and a non-null value.
ValuePairs ==
    IF Len(ReturnedArr) < 2 THEN {}
    ELSE {p \in (2..Len(ReturnedArr)) \X FetchedBands :
             /\ RowHasDate(ReturnedArr, p[1])
             /\ HasCell(ReturnedArr, p[1], p[2])
             /\ CellOf(ReturnedArr, p[1], p[2]).k # "null"}

\* The record the pair (row i, band) stands for.
RecordOf(arr, i, band) ==
    [date |-> strftime(RowDay(arr, i)),
     band |-> band,
     value |-> convert_units(band, Rat(CellOf(arr, i, band).n, CellOf(arr, i, band).d)),
     model |-> FetchModel,
     scenario |-> FetchScenario]

CountIn(df, x) ==
    Cardinality({j \in 1..Len(df) : df[j] = x})

RecordsMatchPairs ==
    /\ Len(fetchOut.val.df) = Cardinality(ValuePairs)
    /\ \A p \in ValuePairs :
           LET x == RecordOf(ReturnedArr, p[1], p[2])
           IN  CountIn(fetchOut.val.df, x) =
                   Cardinality({q \in ValuePairs : RecordOf(ReturnedArr, q[1], q[2]) = x})

\* C1: for every remote outcome fetch_point_timeseries returns a table (it
\* never raises), and after an error on the size check or on getRegion, or a
\* result without a 'time' column, the table is empty.
C1_NeverRaises ==
    fetchOut.done =>
        /\ ~fetchOut.val.raised
        /\ (\/ ~fetchIn.remote.size.ok
            \/ (FetchAsked("getRegion") /\ ~fetchIn.remote.region.ok)
            \/ (Len(ReturnedArr) >= 1 /\ "time" \notin Range(ReturnedArr[1])))
               => fetchOut.val.df = <<>>

\* C9: when the band-name check succeeds, every returned record has a band
\* that is requested and present on the first item, a requested band that is
\* absent is dropped without ending the fetch, and getRegion is asked for
\* exactly the requested bands that are present.
C9_PartialFulfilment ==
    (fetchOut.done /\ FetchAsked("bandNames") /\ fetchIn.remote.bandNames.ok) =>
        LET present == Range(fetchIn.bands) \cap Range(fetchIn.remote.bandNames.names)
        IN  /\ \A j \in 1..Len(fetchOut.val.df) : fetchOut.val.df[j].band \in present
            /\ (present # {}) <=> FetchAsked("getRegion")
            /\ FetchAsked("getRegion") => FetchedBands = present

\* Three bands requested, two of them present: both are fetched and recorded.
C9_Witness ==
    /\ fetchOut.done
    /\ fetchIn.bands = <<"tas", "hurs", "pr">>
    /\ fetchIn.remote.bandNames = [ok |-> TRUE, names |-> <<"tas", "tasmax", "pr">>]
    /\ ~fetchOut.val.raised
    /\ {fetchOut.val.df[j].band : j \in 1..Len(fetchOut.val.df)} = {"tas", "pr"}

\* C10: the returned table holds exactly one record per (returned row, fetched
\* band) pair whose value is non-null, with the row's date, the converted
\* value and the requested model and scenario, and no other record.
C10_OneRecordPerValue ==
    fetchOut.done => RecordsMatchPairs

\* The same, for the calls that return.
FetchReturnsMatchingRecords ==
    (fetchOut.done /\ ~fetchOut.val.raised) => RecordsMatchPairs

(***************************************************************************)
(* Claims about the sweep and the ensemble (SpecSweep)                     *)
(***************************************************************************)
\* Every record the sweep collected, in the order collected.
Collected ==
    concat(sweep.all_frames)

RECURSIVE SumAt(_, _)
SumAt(df, idx) ==
    IF idx = {} THEN <<0, 1>>
    ELSE LET i == CHOOSE j \in idx : TRUE
         IN  RatAdd(df[i].value, SumAt(df, idx \ {i}))

\* The records of the collected table for one (scenario, band, date).
RecordsAt(scenario, band, date) ==
    {i \in 1..Len(Collected) :
        /\ Collected[i].scenario = scenario
        /\ Collected[i].band = band
        /\ Collected[i].date = date}

EnsembleRowsAt(scenario, band, date) ==
    {j \in 1..Len(ss.cached_dataframe.rows) :
        /\ ss.cached_dataframe.rows[j].model = "ENSEMBLE-MEAN"
        /\ ss.cached_dataframe.rows[j].scenario = scenario
        /\ ss.cached_dataframe.rows[j].band = band
        /\ ss.cached_dataframe.rows[j].date = date}

\* C2: after a fetch with the ensemble requested, for every (scenario, band,
\* date) that has a record in the combined multi-model table the output holds
\* exactly one ENSEMBLE-MEAN record, and its value times the number of
\* records of that date equals the sum of their values.
C2_EnsembleIsMean ==
    (outcome = "fetched" /\ ui.include_ensemble) =>
        \A i \in 1..Len(Collected) :
            LET sc == Collected[i].scenario
                bd == Collected[i].band
                dt == Collected[i].date
                at == RecordsAt(sc, bd, dt)
                ens == EnsembleRowsAt(sc, bd, dt)
            IN  /\ Cardinality(ens) = 1
                /\ \A j \in ens :
                       RatScale(ss.cached_dataframe.rows[j].value, Cardinality(at))
                           = SumAt(Collected, at)

\* Model values 20 and 10 on one date give the ensemble record 15, and on
\* another date of the same table only one model has a record.
C2_Witness ==
    /\ outcome = "fetched"
    /\ ui.include_ensemble
    /\ Len(ui.sel_models) >= 2
    /\ \E j \in 1..Len(ss.cached_dataframe.rows) :
           /\ ss.cached_dataframe.rows[j] =
                  [date |-> <<2000, 1, 1>>, band |-> "tas", value |-> <<15, 1>>,
                   model |-> "ENSEMBLE-MEAN", scenario |-> "historical"]
           /\ {Collected[i].value : i \in RecordsAt("historical", "tas", <<2000, 1, 1>>)}
                  = {<<10, 1>>, <<20, 1>>}
    /\ \E i \in 1..Len(Collected) :
           Cardinality(RecordsAt(Collected[i].scenario, Collected[i].band,
                                 Collected[i].date)) = 1

\* The (scenario, decade, model) positions whose clamped window is non-null.
Combos ==
    {t \in (1..Len(ui.sel_scen)) \X (1..Len(ui.decades)) \X (1..Len(ui.sel_models)) :
        clamp_dates_for_scenario(ui.decades[t[2]][1], ui.decades[t[2]][2],
                                 ui.sel_scen[t[1]]) # NoneNone}

ComboBefore(a, b) ==
    \/ a[1] < b[1]
    \/ a[1] = b[1] /\ a[2] < b[2]
    \/ a[1] = b[1] /\ a[2] = b[2] /\ a[3] < b[3]

\* The k-th combination in the order scenario, decade, model.
ComboAt(k) ==
    CHOOSE t \in Combos : Cardinality({u \in Combos : ComboBefore(u, t)}) = k - 1

LogMatchesCombo(entry, t) ==
    /\ entry.scenario = ui.sel_scen[t[1]]
    /\ entry.model = ui.sel_models[t[3]]
    /\ <<entry.start, entry.end>> =
           clamp_dates_for_scenario(ui.decades[t[2]][1], ui.decades[t[2]][2],
                                    ui.sel_scen[t[1]])

SweepOver ==
    pc = "waiting" /\ outcome \in {"nodata", "raised", "fetched"}

FetchedAllInOrder ==
    /\ Len(fetchLog) = Cardinality(Combos)
    /\ \A k \in 1..Len(fetchLog) : LogMatchesCombo(fetchLog[k], ComboAt(k))

\* C7: when a sweep is over, every combination with a non-null clamped window
\* has been fetched exactly once, in the order scenario, decade, model,
\* whatever the earlier fetches of the sweep returned.
C7_EveryComboFetchedOnce ==
    SweepOver => FetchedAllInOrder

\* The same for the sweeps in which no fetch raised.
SweepWithoutRaiseFetchesAll ==
    (SweepOver /\ outcome # "raised") => FetchedAllInOrder

\* C8: a fetch whose catalog subset is empty asks the remote for the size
\* only, returns no rows and does not raise, and the sweep logs exactly one
\* skip entry for that combination.
C8_EmptyCatalogIsSkipped ==
    \A k \in 1..Len(fetchLog) :
        fetchLog[k].size = 0 =>
            /\ ~fetchLog[k].raised
            /\ fetchLog[k].rows = 0
            /\ [i \in 1..Len(fetchLog[k].calls) |-> fetchLog[k].calls[i].op] = <<"size">>
            /\ Cardinality({e \in 1..Len(sweep.error_log) :
                               /\ sweep.error_log[e].kind = "nodata"
                               /\ sweep.error_log[e].model = fetchLog[k].model
                               /\ sweep.error_log[e].scenario = fetchLog[k].scenario
                               /\ sweep.error_log[e].start = fetchLog[k].start
                               /\ sweep.error_log[e].end = fetchLog[k].end}) = 1

\* An empty catalog for (a model, historical, 2000-01-01..2009-12-31) was
\* skipped and the sweep went on to fetch the next combination.
C8_Witness ==
    \E k \in 1..Len(fetchLog) :
        /\ fetchLog[k].size = 0
        /\ fetchLog[k].scenario = "historical"
        /\ fetchLog[k].start = <<2000, 1, 1>>
        /\ fetchLog[k].end = <<2009, 12, 31>>
        /\ Len(fetchLog) > k
        /\ sweep.error_log # <<>>

(***************************************************************************)
(* Claims about the session (Spec)                                         *)
(***************************************************************************)
InvalidSelection ==
    \/ ui.sel_bands = <<>>
    \/ ui.sel_models = <<>>
    \/ ui.sel_scen = <<>>
    \/ ui.decades = <<>>
    \/ (ui.include_ensemble /\ Len(ui.sel_models) < 2)

CacheAsBefore ==
    /\ ss.cached_dataframe = ss0.cached_dataframe
    /\ ss.cached_latlon = ss0.cached_latlon
    /\ ss.cached_location = ss0.cached_location
    /\ ss.cached_ensemble = ss0.cached_ensemble
    /\ ss.cached_models = ss0.cached_models
    /\ ss.cached_bands = ss0.cached_bands
    /\ ss.download_data = ss0.download_data
    /\ ss.data_hash = ss0.data_hash
    /\ ss.download_info = ss0.download_info
    /\ ss.downloads_ready = ss0.downloads_ready

\* C6: a script run with Fetch pressed and an invalid selection never enters
\* the sweep, calls fetch_point_timeseries zero times and leaves the cached
\* table and the artifacts as they were when the run started.
C6_InvalidSelectionAborts ==
    (ui.run /\ InvalidSelection /\ pc # "start") =>
        /\ pc = "waiting"
        /\ fetchLog = <<>>
        /\ sweep.count = 0
        /\ CacheAsBefore

\* Fetch was pressed with the ensemble and one model while an earlier fetch's
\* table and artifacts were cached, and the run has ended.
C6_Witness ==
    /\ pc = "waiting"
    /\ ui.run
    /\ ui.include_ensemble /\ Len(ui.sel_models) = 1
    /\ outcome = "invalid"
    /\ ss0.downloads_ready
    /\ "cached_dataframe" \in ss0.keys

(***************************************************************************)
(* Claims about the download artifacts                                     *)
(***************************************************************************)
TableRows ==
    ss.cached_dataframe.rows

TableModels ==
    {TableRows[i].model : i \in 1..Len(TableRows)}

\* The number of comment lines an artifact text starts with.
RECURSIVE LeadingComments(_)
LeadingComments(lines) ==
    IF lines = <<>> \/ Head(lines).mark # "#" THEN 0
    ELSE 1 + LeadingComments(Tail(lines))

\* The text with its comment lines removed.
Uncommented(lines) ==
    LET Kept(line) == line.mark # "#"
    IN  SelectSeq(lines, Kept)

\* The rows of the table an artifact is about.
RowsFor(key) ==
    LET Mine(row) == key = "_combined" \/ row.model = key
    IN  SelectSeq(TableRows, Mine)

\* The data rows of an artifact: what follows the header row.
DataRows(key) ==
    Tail(Uncommented(ss.download_data[key].data))

\* C11: after packaging there is one artifact per distinct model of the
\* table plus the combined one, the data rows of a model's artifact are the
\* table rows of that model, those of the combined artifact are all table
\* rows, and the per-model row counts add up to the combined row count.
C11_OneArtifactPerModel ==
    ss.downloads_ready =>
        /\ DOMAIN ss.download_data = TableModels \cup {"_combined"}
        /\ Len(DataRows("_combined")) = Len(TableRows)
        /\ \A key \in TableModels :
              /\ Len(DataRows(key)) = Len(RowsFor(key))
              /\ \A k \in 1..Len(DataRows(key)) :
                    \E i \in 1..Len(TableRows) :
                        /\ TableRows[i].model = key
                        /\ Cardinality({j \in 1..i : TableRows[j].model = key}) = k
                        /\ DataRows(key)[k] = DataRows("_combined")[i]
        /\ \A i \in 1..Len(TableRows) :
              \E c \in 1..Len(DataRows("_combined")[i].cells) :
                  DataRows("_combined")[i].cells[c] = StrCell(TableRows[i].model)
        /\ SeqSum([k \in 1..Len(SortedNames(TableModels)) |->
                      <<Len(DataRows(SortedNames(TableModels)[k])), 1>>])
              = <<Len(DataRows("_combined")), 1>>

\* Artifacts of two models and the ensemble mean, each with rows.
C11_Witness ==
    /\ ss.downloads_ready
    /\ DOMAIN ss.download_data
          = {"ACCESS-ESM1-5", "MPI-ESM1-2-LR", "ENSEMBLE-MEAN", "_combined"}
    /\ Len(DataRows("ACCESS-ESM1-5")) >= 2
    /\ Len(DataRows("_combined")) >= 6

HeaderCells(columns) ==
    [c \in 1..Len(columns) |-> StrCell(columns[c])]

\* C12: every artifact is a block of comment lines, then the header row
\* date,band,value,model,scenario, then one data row per record, whatever
\* output options were chosen.
C12_ArtifactLayout ==
    ss.downloads_ready =>
        \A key \in DOMAIN ss.download_data :
            LET text == ss.download_data[key].data
                n == LeadingComments(text)
            IN  /\ n >= 1
                /\ Len(text) = n + 1 + Len(RowsFor(key))
                /\ \A i \in (n + 1)..Len(text) : text[i].mark = ""
                /\ text[n + 1].cells =
                       HeaderCells(<<"date", "band", "value", "model", "scenario">>)

\* The same layout with the header row of the table's own column order.
ArtifactLayoutOfTableColumns ==
    ss.downloads_ready =>
        \A key \in DOMAIN ss.download_data :
            LET text == ss.download_data[key].data
                n == LeadingComments(text)
            IN  /\ n >= 1
                /\ Len(text) = n + 1 + Len(RowsFor(key))
                /\ \A i \in (n + 1)..Len(text) : text[i].mark = ""
                /\ text[n + 1].cells = HeaderCells(ss.cached_dataframe.columns)

\* The comment line of an artifact that starts with the given word.
HeaderLine(key, word) ==
    LET text == ss.download_data[key].data
    IN  text[CHOOSE i \in 1..Len(text) :
                 /\ text[i].mark = "#"
                 /\ text[i].cells # <<>>
                 /\ text[i].cells[1] = StrCell(word)]

\* C13: the location and place in every cached artifact's header and the
\* coordinates in its filename are those of the most recent successful
\* fetch.
C13_ArtifactsCarryLastLocation ==
    ss.downloads_ready =>
        \A key \in DOMAIN ss.download_data :
            /\ HeaderLine(key, "Location").cells[2] = CoordCell(ss.cached_latlon)
            /\ HeaderLine(key, "Place").cells[2] = StrCell(ss.cached_location)
            /\ ss.download_data[key].filename.lat = Round2(ss.cached_latlon[1])
            /\ ss.download_data[key].filename.lon = Round2(ss.cached_latlon[2])

\* The field of a data row under a column name of the header row.
CellUnder(line, header, name) ==
    line.cells[CHOOSE c \in 1..Len(header.cells) : header.cells[c] = StrCell(name)]

\* The records read from an artifact text: comment lines dropped, the first
\* remaining line taken as the header row.
ParseCsv(text) ==
    LET lines == Uncommented(text)
        header == lines[1]
    IN  [k \in 1..(Len(lines) - 1) |->
            [date |-> CellUnder(lines[k + 1], header, "date").n,
             band |-> CellUnder(lines[k + 1], header, "band").s,
             value |-> <<CellUnder(lines[k + 1], header, "value").n[1],
                         CellUnder(lines[k + 1], header, "value").n[2]>>,
             model |-> CellUnder(lines[k + 1], header, "model").s,
             scenario |-> CellUnder(lines[k + 1], header, "scenario").s]]

ArtifactsOfTable ==
    /\ DOMAIN ss.download_data = TableModels \cup {"_combined"}
    /\ \A key \in DOMAIN ss.download_data :
          Uncommented(ss.download_data[key].data)
              = to_csv(ss.cached_dataframe.columns, RowsFor(key))
    /\ ss.download_info.total_rows = Len(TableRows)
    /\ Range(ss.download_info.unique_models) = TableModels

\* C17: after every run that reaches the packaging step the stored
\* data_hash is the hash of the table shown, and the stored artifacts and
\* download_info are those of that table.
C17_ArtifactsFollowTable ==
    (pc = "waiting" /\ outcome \in {"cached", "fetched"}) =>
        /\ ss.downloads_ready
        /\ ss.data_hash = Hash(ss.cached_dataframe)
        /\ ArtifactsOfTable

\* A fetch replaced a cached table by one of different content, and the
\* artifacts were rebuilt.
C17_Witness ==
    /\ pc = "waiting"
    /\ outcome = "fetched"
    /\ ss0.downloads_ready
    /\ ss0.cached_dataframe # ss.cached_dataframe
    /\ ss0.download_data # ss.download_data

(***************************************************************************)
(* Claims about the tidy table of a fetch                                  *)
(***************************************************************************)
\* The sort key (band, model, scenario, date) of a record.
SortKey(row) ==
    <<StrRank(row.band), StrRank(row.model), StrRank(row.scenario), to_datetime(row.date)>>

\* Key a does not come after key b in lexicographic order.
KeyLeq(a, b) ==
    \/ a = b
    \/ \E k \in 1..4 : a[k] < b[k] /\ \A j \in 1..(k - 1) : a[j] = b[j]

\* C14: after a successful fetch the cached table is in non-decreasing order
\* of (band, model, scenario, date), ENSEMBLE-MEAN records included.
C14_TableSorted ==
    outcome = "fetched" =>
        \A i \in 1..(Len(TableRows) - 1) :
            KeyLeq(SortKey(TableRows[i]), SortKey(TableRows[i + 1]))

\* The second model selected sorts first, and the ensemble records lie
\* between the records of the two models.
C14_Witness ==
    /\ outcome = "fetched"
    /\ Collected[1].model = "MPI-ESM1-2-LR"
    /\ TableRows[1].model = "ACCESS-ESM1-5"
    /\ \E i \in 1..(Len(TableRows) - 2) :
          /\ TableRows[i].model = "ACCESS-ESM1-5"
          /\ TableRows[i + 1].model = "ENSEMBLE-MEAN"
          /\ \E j \in (i + 2)..Len(TableRows) : TableRows[j].model = "MPI-ESM1-2-LR"
    /\ \E i \in 1..(Len(TableRows) - 1) : TableRows[i].band # TableRows[i + 1].band

\* The models that have a record for a (scenario, band) pair.
ModelsOf(scenario, band) ==
    {Collected[i].model : i \in {j \in 1..Len(Collected) :
                                    /\ Collected[j].scenario = scenario
                                    /\ Collected[j].band = band}}

\* C15: when only one model has records for a (scenario, band) pair, each
\* ENSEMBLE-MEAN value of that pair is that model's value of the same date.
C15_SingleModelEnsemble ==
    outcome = "fetched" =>
        \A e \in 1..Len(TableRows) :
            (/\ TableRows[e].model = "ENSEMBLE-MEAN"
             /\ Cardinality(ModelsOf(TableRows[e].scenario, TableRows[e].band)) = 1) =>
                LET at == RecordsAt(TableRows[e].scenario, TableRows[e].band,
                                    TableRows[e].date)
                IN  /\ at # {}
                    /\ \A i \in at : Collected[i].value = TableRows[e].value

\* Two models were selected for the ensemble and only one returned records.
C15_Witness ==
    /\ outcome = "fetched"
    /\ ui.include_ensemble
    /\ Len(ui.sel_models) = 2
    /\ {Collected[i].model : i \in 1..Len(Collected)} = {"MPI-ESM1-2-LR"}
    /\ \E e \in 1..Len(TableRows) :
          /\ TableRows[e].model = "ENSEMBLE-MEAN"
          /\ TableRows[e].value = <<20, 1>>

\* The (scenario, decade) pairs of the selection with a null clamped window.
IncompatiblePairs ==
    {t \in (1..Len(ui.sel_scen)) \X (1..Len(ui.decades)) :
        clamp_dates_for_scenario(ui.decades[t[2]][1], ui.decades[t[2]][2],
                                 ui.sel_scen[t[1]]) = NoneNone}

EveryOutcomeLogged ==
    /\ Len(sweep.all_frames) + Len(sweep.error_log)
          = Len(fetchLog) + Cardinality(IncompatiblePairs)
    /\ sweep.count = Len(fetchLog)
    /\ sweep.all_frames = <<>> => (outcome = "nodata" /\ sweep.error_log # <<>>)

\* C18: at the end of a sweep the collected frames and the error-log entries
\* together are as many as the fetch calls made plus the incompatible
\* (scenario, decade) pairs, and a sweep without rows ends in the
\* troubleshooting summary with a non-empty log.
C18_EveryOutcomeLogged ==
    SweepOver => EveryOutcomeLogged

\* The same for the sweeps in which no fetch raised.
SweepWithoutRaiseLogsAll ==
    (SweepOver /\ outcome # "raised") => EveryOutcomeLogged

\* Two windows share no day.
Disjoint(a, b) ==
    \/ to_datetime(a[2]) < to_datetime(b[1])
    \/ to_datetime(b[2]) < to_datetime(a[1])

\* C19: the clamped windows of distinct selected decades never overlap for
\* one scenario, and after a fetch no two records of the table have the same
\* (date, band, model, scenario).
C19_NoDuplicateRecords ==
    /\ \A si \in 1..Len(ui.sel_scen) : \A d1, d2 \in 1..Len(ui.decades) :
          LET w1 == clamp_dates_for_scenario(ui.decades[d1][1], ui.decades[d1][2],
                                             ui.sel_scen[si])
              w2 == clamp_dates_for_scenario(ui.decades[d2][1], ui.decades[d2][2],
                                             ui.sel_scen[si])
          IN  (d1 # d2 /\ w1 # NoneNone /\ w2 # NoneNone) => Disjoint(w1, w2)
    /\ outcome = "fetched" =>
          \A i, j \in 1..Len(TableRows) :
              (/\ TableRows[i].date = TableRows[j].date
               /\ TableRows[i].band = TableRows[j].band
               /\ TableRows[i].model = TableRows[j].model
               /\ TableRows[i].scenario = TableRows[j].scenario) => i = j

\* Two decades were fetched for one scenario and one model, each with rows.
C19_Witness ==
    /\ outcome = "fetched"
    /\ Len(ui.decades) = 2
    /\ \E i, j \in 1..Len(TableRows) :
          /\ TableRows[i].model = TableRows[j].model
          /\ TableRows[i].scenario = "historical"
          /\ TableRows[j].scenario = "historical"
          /\ TableRows[i].band = TableRows[j].band
          /\ TableRows[i].date[1] = 2000
          /\ TableRows[j].date[1] = 2010

\* C20: after a successful fetch the table has records of individual models
\* iff they were asked for and ENSEMBLE-MEAN records iff the ensemble was
\* asked for, and every record is a fetched record of a selected model or an
\* ENSEMBLE-MEAN record.
C20_OutputOptions ==
    outcome = "fetched" =>
        /\ (\E i \in 1..Len(TableRows) : TableRows[i].model # "ENSEMBLE-MEAN")
              <=> ui.include_individual
        /\ (\E i \in 1..Len(TableRows) : TableRows[i].model = "ENSEMBLE-MEAN")
              <=> ui.include_ensemble
        /\ \A i \in 1..Len(TableRows) :
              \/ TableRows[i].model = "ENSEMBLE-MEAN"
              \/ /\ TableRows[i].model \in Range(ui.sel_models)
                 /\ \E k \in 1..Len(Collected) : Collected[k] = TableRows[i]
        /\ ui.include_individual =>
              \A k \in 1..Len(Collected) :
                  \E i \in 1..Len(TableRows) : TableRows[i] = Collected[k]

\* Both models returned records and the table holds the ensemble records only.
C20_Witness ==
    /\ outcome = "fetched"
    /\ ~ui.include_individual
    /\ ui.include_ensemble
    /\ Len(TableRows) >= 2
    /\ Len(Collected) >= 4

(***************************************************************************)
(* Claims about _ensure_ee_initialized (SpecEnsure)                        *)
(***************************************************************************)
\* C27: _ensure_ee_initialized returns a (bool, message) pair on every path
\* and never raises; in particular, with service-account credentials
\* supplied that ee.Initialize rejects on Streamlit Cloud it returns
\* (False, message).
C27_AlwaysReturnsPair ==
    ensureOut.done => ~ensureOut.val.raised

(***************************************************************************)
(* Claims about the scenario filter (SpecFilter)                           *)
(***************************************************************************)
\* Some selected decade has a non-empty overlap with the scenario's window.
SomeDecadeCompatible(decades, scenario) ==
    \E d \in decades :
        clamp_dates_for_scenario(d.range[1], d.range[2], scenario)[1] # None

\* C28: for every non-empty set of selected decades, a scenario is offered
\* by the sidebar exactly when the clamper returns a non-null window for at
\* least one of the selected decades.
C28_FilterAgreesWithClamp ==
    (filtOut.done /\ filtIn.decades # {}) =>
        \A sc \in Range(KNOWN_SCENARIOS) :
            (sc \in Range(filtOut.val)) <=> SomeDecadeCompatible(filtIn.decades, sc)

\* The 2010s alone are selected: the historical and the future scenarios are
\* all offered.
C28_Witness ==
    /\ filtOut.done
    /\ filtIn.decades = {DecadeKey(2010)}
    /\ filtOut.val = KNOWN_SCENARIOS

(***************************************************************************)
(* Claims about the fetch query and the artifact headers (SpecSweep)       *)
(***************************************************************************)
\* The catalog days of a scenario in the closed interval [start, end].
ClosedWindowDays(scenario, start, end) ==
    {day \in CatalogDays :
        /\ IF scenario = "historical"
           THEN DateLeq(day, <<2014, 12, 31>>)
           ELSE DateLeq(<<2015, 1, 1>>, day)
        /\ DateLeq(start, day)
        /\ DateLeq(day, end)}

\* C22: the fetch for a clamped window [start, end] resolves every catalog
\* item in the closed interval [start, end], the item of the end day
\* included: the number of images the query of a fetch resolved is the
\* number of catalog days of its scenario from start to end.
C22_EndDayResolved ==
    \A i \in 1..Len(fetchLog) :
        fetchLog[i].size > 0 =>
            fetchLog[i].size = Cardinality(ClosedWindowDays(fetchLog[i].scenario,
                                                            fetchLog[i].start,
                                                            fetchLog[i].end))

\* The names a header gives on lines of their own in its MODELS section.
HeaderModels(key) ==
    LET text == ss.download_data[key].data
    IN  {name \in (TableModels \cup Range(ui.sel_models)) \ {ENSEMBLE_MEAN} :
            \E i \in 1..Len(text) :
                text[i].mark = "#" /\ text[i].cells = <<StrCell(name)>>}

\* C24: every artifact that contains ENSEMBLE-MEAN records lists in its
\* header the models contributing to the ensemble, and the models listed are
\* exactly the distinct non-ensemble models with records in the table.
C24_EnsembleHeaderListsModels ==
    outcome = "fetched" =>
        \A key \in DOMAIN ss.download_data :
            (\E i \in 1..Len(RowsFor(key)) : RowsFor(key)[i].model = ENSEMBLE_MEAN) =>
                /\ HeaderModels(key) # {}
                /\ HeaderModels(key) = TableModels \ {ENSEMBLE_MEAN}

\* C26: during a sweep the progress counter goes up by one with each fetch
\* and never exceeds total = |scenarios| x |decades| x |models|, and total
\* is not zero when the sweep starts, so count/total lies in (0, 1] at every
\* report.
C26_ProgressWithinTotal ==
    (pc = "sweep" \/ SweepOver) =>
        /\ sweep.total = Len(ui.sel_scen) * Len(ui.decades) * Len(ui.sel_models)
        /\ sweep.total > 0
        /\ sweep.count = Len(fetchLog)
        /\ sweep.count <= sweep.total

\* A sweep over two models and two decades ended with every combination
\* fetched: the last report was total/total.
C26_Witness ==
    /\ SweepOver
    /\ sweep.total = 4
    /\ sweep.count = sweep.total

\* C30: whenever a sweep that passed validation collects at least one frame,
\* the list of output frames is not empty (the concatenation does not
\* raise), and the cached table has at least one row, whatever the output
\* options.
C30_OutputNeverEmpty ==
    (pc = "waiting" /\ sweep.pos = NoPos /\ sweep.all_frames # <<>>) =>
        /\ outcome = "fetched"
        /\ Len(TableRows) >= 1
        /\ shown.rendered /\ shown.table = ss.cached_dataframe

\* Ensemble-only output of a sweep in which one of the two models returned
\* records.
C30_Witness ==
    /\ outcome = "fetched"
    /\ ~ui.include_individual
    /\ ui.include_ensemble
    /\ Len(sweep.all_frames) = 1
    /\ Len(TableRows) >= 1

(***************************************************************************)
(* Claims about the session cache (Spec)                                   *)
(***************************************************************************)
\* C23: a run without Fetch after a successful fetch calls
\* fetch_point_timeseries zero times, shows the cached table with the cached
\* location and model settings, and leaves the cached table, data_hash and
\* the artifacts as they were.
C23_CachedRerun ==
    outcome = "cached" =>
        /\ fetchLog = <<>>
        /\ sweep.count = 0
        /\ shown = Rendered(ss0.cached_dataframe, ss0.cached_latlon, ss0.cached_location,
                            ss0.cached_ensemble, ss0.cached_models, ss0.cached_bands)
        /\ ss.cached_dataframe = ss0.cached_dataframe
        /\ ss.data_hash = ss0.data_hash
        /\ ss.download_data = ss0.download_data

\* A cached table is shown while the widgets point at another place and
\* another output option than the cached ones.
C23_Witness ==
    /\ outcome = "cached"
    /\ ui.coords # ss.cached_latlon
    /\ ui.include_ensemble # ss.cached_ensemble
    /\ shown.latlon = ss.cached_latlon
    /\ Len(shown.table.rows) >= 1

\* C25: whenever downloads_ready is true, cached_dataframe, download_data,
\* download_info and data_hash are set, download_data has a "_combined"
\* entry and an entry for every model of download_info.unique_models.
C25_ReadyMeansComplete ==
    ss.downloads_ready =>
        /\ {"cached_dataframe", "download_data", "download_info", "data_hash"}
               \subseteq ss.keys
        /\ "_combined" \in DOMAIN ss.download_data
        /\ \A m \in Range(ss.download_info.unique_models) :
               m \in DOMAIN ss.download_data

\* Artifacts of two models and the ensemble are cached and a later run
\* renders their buttons from the cache.
C25_Witness ==
    /\ ss.downloads_ready
    /\ outcome = "cached"
    /\ Len(ss.download_info.unique_models) = 3

\* C29: a sweep that yields zero rows leaves cached_dataframe, the cached
\* location and settings, download_data, data_hash, download_info and
\* downloads_ready as they were before the sweep.
C29_EmptySweepKeepsCache ==
    outcome = "nodata" =>
        /\ ss.cached_dataframe = ss0.cached_dataframe
        /\ ss.cached_latlon = ss0.cached_latlon
        /\ ss.cached_location = ss0.cached_location
        /\ ss.cached_ensemble = ss0.cached_ensemble
        /\ ss.cached_models = ss0.cached_models
        /\ ss.cached_bands = ss0.cached_bands
        /\ ss.download_data = ss0.download_data
        /\ ss.data_hash = ss0.data_hash
        /\ ss.download_info = ss0.download_info
        /\ ss.downloads_ready = ss0.downloads_ready

\* A sweep without rows after an earlier successful fetch: the artifacts of
\* that fetch are still cached.
C29_Witness ==
    /\ outcome = "nodata"
    /\ fetchLog # <<>>
    /\ ss.downloads_ready
    /\ Len(TableRows) >= 1

(***************************************************************************)
(* Claims about the connection gate (SpecConnect)                          *)
(***************************************************************************)
Initialized ==
    "ee_initialized" \in ss.keys /\ ss.ee_initialized

\* C21: across reruns and presses of "Change Project & Reconnect", no sweep
\* runs, no fetch is made and nothing is rendered for download unless
\* ee_initialized is true, and ee_initialized is true only after an
\* ee.Initialize call of the session succeeded.
C21_NothingWithoutService ==
    /\ (\/ pc = "sweep"
        \/ fetchLog # <<>>
        \/ shown.rendered
        \/ outcome \in {"running", "cached", "nodata", "raised", "fetched"})
           => Initialized
    /\ Initialized => ee.connected

\* After a successful fetch a reconnect failed: the run stops in the sidebar
\* with the artifacts still cached and nothing rendered.
C21_Witness ==
    /\ outcome = "stopped"
    /\ ss.downloads_ready
    /\ ~Initialized
    /\ ee.connected
    /\ ~shown.rendered

====
